---- MODULE Spec2Model ----
(***************************************************************************)
(* Restaurant assistant: the conversation manager (sessions, cursor,       *)
(* intents), the meal selector and the allergy checker it calls, and the   *)
(* LLM service that fails over between Gemini (primary) and Ollama         *)
(* (secondary).  Handlers are coroutines: a handler runs atomically up to  *)
(* the next await on a generation backend, the only real suspension point. *)
(***************************************************************************)
EXTENDS Integers, Sequences, FiniteSets, TLC

VARIABLES
    active_sessions,     \* ConversationManager.active_sessions: session id -> session dict
    next_session,        \* number of session ids handed out so far (uuid4 values are fresh)
    issued,              \* session ids a start_conversation reply has given to a client
    consecutive_errors,  \* LLMService.consecutive_errors
    current_provider,    \* LLMService.current_provider
    tasks,               \* request handlers: idle, suspended on a backend, or finished
    gen_history,         \* completed generate_response calls, oldest first
    ncalls,              \* requests started so far
    backends,            \* whether a call of each LLM backend made now would succeed
    checking,            \* one call of the allergy checker, with its arguments
    scoring,             \* one call of the meal selector's scoring and ranking, with its arguments
    health               \* LLMService's health fields, the clock and the health_check call in progress

vars == <<active_sessions, next_session, issued, consecutive_errors,
          current_provider, tasks, gen_history, ncalls, scoring, health, checking,
          backends>>

-----------------------------------------------------------------------------
(* Bounds of the model *)

MaxCalls == 3
NumTasks == 2

Tasks == 1..NumTasks

-----------------------------------------------------------------------------
(* Python values *)

\* None where a str is expected, where a number is, where a tuple is, where an
\* object is
None == "None"
NoneInt == -1
NoneTuple == <<>>
NoneObj == [none |-> TRUE]

Min(a, b) == IF a <= b THEN a ELSE b
Max(a, b) == IF a >= b THEN a ELSE b
Abs(a) == IF a < 0 THEN -a ELSE a

Range(s) == {s[i] : i \in 1..Len(s)}

\* sub in s, on str
StrIn(sub, s) ==
    \E i \in 1..(Len(s) - Len(sub) + 1) : SubSeq(s, i, i + Len(sub) - 1) = sub

LowerChar(c) ==
    CASE c = "A" -> "a" [] c = "B" -> "b" [] c = "C" -> "c" [] c = "D" -> "d"
      [] c = "E" -> "e" [] c = "F" -> "f" [] c = "G" -> "g" [] c = "H" -> "h"
      [] c = "I" -> "i" [] c = "J" -> "j" [] c = "K" -> "k" [] c = "L" -> "l"
      [] c = "M" -> "m" [] c = "N" -> "n" [] c = "O" -> "o" [] c = "P" -> "p"
      [] c = "Q" -> "q" [] c = "R" -> "r" [] c = "S" -> "s" [] c = "T" -> "t"
      [] c = "U" -> "u" [] c = "V" -> "v" [] c = "W" -> "w" [] c = "X" -> "x"
      [] c = "Y" -> "y" [] c = "Z" -> "z" [] OTHER -> c

RECURSIVE lower(_)
lower(s) ==
    IF Len(s) = 0 THEN s
    ELSE LowerChar(SubSeq(s, 1, 1)) \o lower(SubSeq(s, 2, Len(s)))

\* any(p in s for p in phrases)
AnyPhraseIn(phrases, s) == \E i \in 1..Len(phrases) : StrIn(phrases[i], s)

\* Exact fractions <<numerator, denominator>>, denominator > 0, for the float scores.
RECURSIVE GCD(_, _)
GCD(a, b) == IF b = 0 THEN a ELSE GCD(b, a % b)

Frac(n, d) ==
    LET g == GCD(Abs(n), d) IN IF g = 0 THEN <<0, 1>> ELSE <<n \div g, d \div g>>
FAdd(x, y) == Frac(x[1] * y[2] + y[1] * x[2], x[2] * y[2])
FMul(x, y) == Frac(x[1] * y[1], x[2] * y[2])
FDiv(x, y) == Frac(x[1] * y[2], x[2] * y[1])
FLess(x, y) == x[1] * y[2] < y[1] * x[2]
FMax0(x) == IF x[1] < 0 THEN <<0, 1>> ELSE x

-----------------------------------------------------------------------------
(* Settings *)

use_ollama_fallback == TRUE
fallback_threshold_errors == 2
health_check_interval_minutes == 5
APP_NAME == "Restaurant AI Assistant"

-----------------------------------------------------------------------------
(* The catalog: MenuService.menu_data["items"].  Prices are in cents and
   popularity scores in tenths. *)

Margherita ==
    [id |-> "1", name |-> "Margherita Pizza",
     description |-> "Italian pizza",
     price |-> 1499,
     ingredients |-> <<"mozzarella", "tomato sauce", "basil">>,
     allergens |-> <<"dairy", "gluten">>,
     spice_level |-> 1, is_vegetarian |-> TRUE, is_vegan |-> FALSE,
     is_gluten_free |-> FALSE, is_dairy_free |-> FALSE,
     popularity_score |-> 85]

Satay ==
    [id |-> "2", name |-> "Chicken Satay",
     description |-> "Grilled chicken skewers",
     price |-> 1200,
     ingredients |-> <<"chicken", "Groundnut oil">>,
     allergens |-> <<"peanuts">>,
     spice_level |-> 3, is_vegetarian |-> FALSE, is_vegan |-> FALSE,
     is_gluten_free |-> TRUE, is_dairy_free |-> TRUE,
     popularity_score |-> 92]

menu_data == <<Satay, Margherita>>

get_all_menu_items == menu_data

-----------------------------------------------------------------------------
(* UserPreferences values the clients send *)

NoPrefs ==
    [dietary_restrictions |-> <<>>, allergies |-> <<>>, price_range |-> NoneTuple,
     favorite_cuisines |-> <<>>, disliked_ingredients |-> <<>>,
     spice_preference |-> NoneInt, dislikes |-> <<>>]

\* Scenario A: vegetarian, 10 to 20, italian
PrefsA ==
    [NoPrefs EXCEPT !.dietary_restrictions = <<"vegetarian">>,
                    !.price_range = <<1000, 2000>>,
                    !.favorite_cuisines = <<"italian">>]

\* three facets, one of them an allergy
PrefsPeanut ==
    [NoPrefs EXCEPT !.allergies = <<"Peanuts">>,
                    !.price_range = <<1000, 2000>>,
                    !.spice_preference = 3]

\* two facets only
PrefsTwo ==
    [NoPrefs EXCEPT !.favorite_cuisines = <<"italian">>,
                    !.dislikes = <<"basil">>]

PrefsSent == {PrefsA, PrefsPeanut}

-----------------------------------------------------------------------------
(* AllergyChecker *)

allergen_severity_levels(severity) ==
    CASE severity = "high" -> <<"peanuts", "tree nuts", "shellfish", "fish">>
      [] severity = "medium" -> <<"milk", "eggs", "soy", "wheat">>
      [] severity = "low" -> <<"sesame", "sulfites", "celery", "mustard">>

\* self.allergen_synonyms.get(allergy, [])
allergen_synonyms(allergy) ==
    CASE allergy = "dairy" -> <<"milk", "cheese", "butter", "cream", "yogurt", "lactose">>
      [] allergy = "gluten" -> <<"wheat", "barley", "rye", "oats", "flour">>
      [] allergy = "nuts" -> <<"tree nuts", "almonds", "walnuts", "pecans", "cashews", "pistachios">>
      [] allergy = "peanuts" -> <<"groundnuts">>
      [] allergy = "shellfish" -> <<"crab", "lobster", "shrimp", "prawns", "mussels", "clams">>
      [] allergy = "fish" -> <<"salmon", "tuna", "cod", "mackerel">>
      [] allergy = "eggs" -> <<"egg", "albumen">>
      [] allergy = "soy" -> <<"soya", "soybeans", "tofu", "tempeh">>
      [] allergy = "sesame" -> <<"sesame seeds", "tahini">>
      [] OTHER -> <<>>

_get_allergen_severity(allergen) ==
    IF lower(allergen) \in Range(allergen_severity_levels("high")) THEN "high"
    ELSE IF lower(allergen) \in Range(allergen_severity_levels("medium")) THEN "medium"
    ELSE IF lower(allergen) \in Range(allergen_severity_levels("low")) THEN "low"
    ELSE "unknown"

\* Variant: the variations table without "groundnut"
_get_allergen_variationsNoGroundnut(allergen) ==
    LET a == lower(allergen) IN
    CASE a = "peanuts" -> <<"peanut", "arachis">>
      [] a = "milk" -> <<"dairy", "lactose", "whey", "casein">>
      [] a = "wheat" -> <<"gluten", "flour", "semolina">>
      [] OTHER -> <<>>

_get_allergen_variations(allergen) ==
    LET a == lower(allergen) IN
    CASE a = "peanuts" -> <<"peanut", "arachis", "groundnut">>
      [] a = "tree nuts" -> <<"almond", "cashew", "walnut", "pecan", "hazelnut", "brazil nut">>
      [] a = "shellfish" -> <<"shrimp", "crab", "lobster", "prawn", "crayfish">>
      [] a = "fish" -> <<"salmon", "tuna", "cod", "halibut", "anchovy">>
      [] a = "milk" -> <<"dairy", "lactose", "whey", "casein">>
      [] a = "eggs" -> <<"egg", "albumin", "ovalbumin">>
      [] a = "soy" -> <<"soya", "soybean", "edamame">>
      [] a = "wheat" -> <<"gluten", "flour", "semolina">>
      [] a = "sesame" -> <<"sesame seed", "tahini">>
      [] a = "sulfites" -> <<"sulphite", "sulfite", "sulphur dioxide">>
      [] a = "celery" -> <<"celery seed", "celery salt">>
      [] a = "mustard" -> <<"mustard seed", "mustard powder">>
      [] OTHER -> <<>>

\* The entries one allergy adds to found_allergens for one ingredient: a direct
\* match ends the iteration (continue); without one, the synonym pass and the
\* variation pass each add an entry when they match.
AllergyMatches(ingredient, allergy) ==
    LET allergy_norm == lower(allergy)
        ingredient_norm == lower(lower(ingredient))
        entry(match_type) ==
            [allergen |-> allergy_norm,
             severity |-> _get_allergen_severity(allergy_norm),
             match_type |-> match_type]
    IN  IF StrIn(allergy_norm, ingredient_norm) THEN <<entry("direct")>>
        ELSE (IF AnyPhraseIn(allergen_synonyms(allergy_norm), ingredient_norm)
              THEN <<entry("synonym")>> ELSE <<>>)
             \o
             (IF AnyPhraseIn(_get_allergen_variations(allergy_norm), ingredient_norm)
              THEN <<entry("variation")>> ELSE <<>>)

RECURSIVE _check_ingredient_allergens(_, _)
_check_ingredient_allergens(ingredient, allergies) ==
    IF Len(allergies) = 0 THEN <<>>
    ELSE AllergyMatches(ingredient, Head(allergies))
         \o _check_ingredient_allergens(ingredient, Tail(allergies))

\* get_allergen_warnings(meal, allergies): the entries of every ingredient from
\* the i-th on, each with its ingredient
RECURSIVE get_allergen_warnings(_, _, _)
get_allergen_warnings(meal, allergies, i) ==
    IF i > Len(meal.ingredients) THEN <<>>
    ELSE LET found_allergens ==
                 _check_ingredient_allergens(meal.ingredients[i], allergies)
         IN  [k \in 1..Len(found_allergens) |->
                 [allergen |-> found_allergens[k].allergen,
                  severity |-> found_allergens[k].severity,
                  ingredient |-> meal.ingredients[i],
                  match_type |-> found_allergens[k].match_type]]
             \o get_allergen_warnings(meal, allergies, i + 1)

\* The keys of allergen_synonyms
SynonymKeys ==
    {"dairy", "gluten", "nuts", "peanuts", "shellfish", "fish", "eggs", "soy", "sesame"}

\* Every name of the synonym dictionary: the keys and their synonyms
SynonymNames ==
    SynonymKeys \cup UNION {Range(allergen_synonyms(key)) : key \in SynonymKeys}

\* Ingredients as a menu writes them
MenuIngredients == {"Groundnut oil", "groundnuts (roasted)", "Peanut butter", "chicken"}

\* Before any call of the allergy checker
NoChecking ==
    [pc |-> "idle", ingredient |-> "", allergies |-> <<>>,
     found_allergens |-> <<>>, warnings |-> <<>>]

\* is_safe of one meal of the loop: no ingredient has a found allergen
MealIsSafe(meal, allergies) ==
    \A i \in 1..Len(meal.ingredients) :
        _check_ingredient_allergens(meal.ingredients[i], allergies) = <<>>

\* Variant: filter_allergens whose loop starts at the second meal.
filter_allergensFromSecond(meals, allergies) ==
    IF Len(allergies) = 0 THEN [raised |-> None, value |-> meals]
    ELSE IF \E i \in 1..Len(meals) : "ingredients" \notin DOMAIN meals[i]
         THEN [raised |-> "AttributeError", value |-> <<>>]
         ELSE [raised |-> None,
               value |-> SelectSeq(SubSeq(meals, 2, Len(meals)),
                                   LAMBDA meal : MealIsSafe(meal, allergies))]

\* filter_allergens(meals, allergies).  The loop reads meal.ingredients of every
\* element: an element without that attribute (a MealRecommendation) raises
\* AttributeError.
filter_allergens(meals, allergies) ==
    IF Len(allergies) = 0 THEN [raised |-> None, value |-> meals]
    ELSE IF \E i \in 1..Len(meals) : "ingredients" \notin DOMAIN meals[i]
         THEN [raised |-> "AttributeError", value |-> <<>>]
         ELSE [raised |-> None,
               value |-> SelectSeq(meals, LAMBDA meal : MealIsSafe(meal, allergies))]

-----------------------------------------------------------------------------
(* MealSelector *)

\* Variant: a MealSelector that also defines the method get_recommendations
\* calls for the reasoning text.
MealSelectorMethodsWithReasoning ==
    {"__init__", "_calculate_preference_score", "_generate_recommendation_reasons",
     "_generate_recommendation_reasoning", "get_recommendations", "get_similar_items"}

\* The methods class MealSelector defines.
MealSelectorMethods ==
    {"__init__", "_calculate_preference_score", "_generate_recommendation_reasons",
     "get_recommendations", "get_similar_items"}

limit == 3

DietaryMatch(item, restriction) ==
    \/ restriction = "vegetarian" /\ item.is_vegetarian
    \/ restriction = "vegan" /\ item.is_vegan
    \/ restriction = "gluten_free" /\ item.is_gluten_free
    \/ restriction = "dairy_free" /\ item.is_dairy_free

DislikeMatch(item, dislike) ==
    \/ StrIn(lower(dislike), lower(item.name))
    \/ StrIn(lower(dislike), lower(item.description))
    \/ \E i \in 1..Len(item.ingredients) :
           StrIn(lower(dislike), lower(item.ingredients[i]))

RECURSIVE Halve(_, _)
Halve(x, times) == IF times = 0 THEN x ELSE Halve(FMul(x, <<1, 2>>), times - 1)

\* _calculate_preference_score(item, preferences): [raised, value], value the
\* score as a fraction.  A price range whose maximum is 0 divides by zero when the
\* price is outside it.
_calculate_preference_score(item, preferences) ==
    LET has_price == preferences.price_range # NoneTuple
        min_price == preferences.price_range[1]
        max_price == preferences.price_range[2]
        in_range == min_price <= item.price /\ item.price <= max_price
        price_diff == Min(Abs(item.price - min_price), Abs(item.price - max_price))
        price_score ==
            IF in_range THEN <<1, 1>>
            ELSE FMax0(FAdd(<<1, 1>>, Frac(-price_diff, max_price)))
        price_part == IF has_price THEN FMul(price_score, <<3, 10>>) ELSE <<0, 1>>
        price_max == IF has_price THEN <<3, 10>> ELSE <<0, 1>>
        has_dietary == Len(preferences.dietary_restrictions) > 0
        dietary_score ==
            Cardinality({i \in 1..Len(preferences.dietary_restrictions) :
                            DietaryMatch(item, preferences.dietary_restrictions[i])})
        dietary_part ==
            IF has_dietary
            THEN FMul(Frac(dietary_score, Len(preferences.dietary_restrictions)), <<1, 4>>)
            ELSE <<0, 1>>
        dietary_max == IF has_dietary THEN <<1, 4>> ELSE <<0, 1>>
        has_spice == preferences.spice_preference # NoneInt /\ preferences.spice_preference # 0
        spice_diff == Abs(item.spice_level - preferences.spice_preference)
        spice_part ==
            IF has_spice
            THEN FMul(FMax0(FAdd(<<1, 1>>, Frac(-spice_diff, 5))), <<3, 20>>)
            ELSE <<0, 1>>
        spice_max == IF has_spice THEN <<3, 20>> ELSE <<0, 1>>
        has_cuisine == Len(preferences.favorite_cuisines) > 0
        cuisine_score ==
            Cardinality({i \in 1..Len(preferences.favorite_cuisines) :
                            StrIn(lower(preferences.favorite_cuisines[i]),
                                  lower(item.description))})
        cuisine_part ==
            IF has_cuisine
            THEN FMul(Frac(cuisine_score, Len(preferences.favorite_cuisines)), <<1, 5>>)
            ELSE <<0, 1>>
        cuisine_max == IF has_cuisine THEN <<1, 5>> ELSE <<0, 1>>
        has_disliked == Len(preferences.disliked_ingredients) > 0
        disliked_hit ==
            \E i \in 1..Len(preferences.disliked_ingredients) :
                \E j \in 1..Len(item.ingredients) :
                    lower(preferences.disliked_ingredients[i]) = lower(item.ingredients[j])
        disliked_part ==
            IF has_disliked /\ ~disliked_hit THEN <<1, 10>> ELSE <<0, 1>>
        disliked_max == IF has_disliked THEN <<1, 10>> ELSE <<0, 1>>
        score ==
            FAdd(FAdd(FAdd(FAdd(price_part, dietary_part), spice_part), cuisine_part),
                 disliked_part)
        max_score ==
            FAdd(FAdd(FAdd(FAdd(price_max, dietary_max), spice_max), cuisine_max),
                 disliked_max)
        penalties ==
            Cardinality({i \in 1..Len(preferences.dislikes) :
                            DislikeMatch(item, preferences.dislikes[i])})
        penalised == Halve(score, penalties)
    IN  IF has_price /\ ~in_range /\ max_price = 0
        THEN [raised |-> "ZeroDivisionError", value |-> <<0, 1>>]
        ELSE [raised |-> None,
              value |-> IF max_score[1] > 0 THEN FDiv(penalised, max_score) ELSE <<0, 1>>]

\* scored_items.sort(key=score, reverse=True): a stable sort, equal scores keep
\* the catalog's order.  Position of element i in the sorted list.
SortedPosition(scores, i) ==
    1 + Cardinality({j \in 1..Len(scores) :
                        \/ FLess(scores[i], scores[j])
                        \/ scores[j] = scores[i] /\ j < i})

SortByScore(items, scores) ==
    [p \in 1..Len(items) |->
        LET i == CHOOSE k \in 1..Len(items) : SortedPosition(scores, k) = p
        IN  [item |-> items[i], score |-> scores[i]]]

\* The first loop of get_recommendations: the score of every item
ScoreAll(all_items, preferences) ==
    [i \in 1..Len(all_items) |-> _calculate_preference_score(all_items[i], preferences)]

\* get_recommendations from the scores on: the sort and the loop over the top
\* `limit` items.
RecommendationsFrom(results) ==
    LET all_items == get_all_menu_items
        score_raises == \E i \in 1..Len(all_items) : results[i].raised # None
        scored_items == SortByScore(all_items, [i \in 1..Len(all_items) |-> results[i].value])
        top == SubSeq(scored_items, 1, Min(limit, Len(scored_items)))
        alternatives == SubSeq(scored_items, limit + 1, Min(limit + 2, Len(scored_items)))
        loop_raises ==
            /\ Len(top) > 0
            /\ \/ Len(alternatives) > 0
               \/ "_generate_recommendation_reasoning" \notin MealSelectorMethods
    IN  IF score_raises \/ loop_raises THEN <<>>
        ELSE [i \in 1..Len(top) |->
                 [meal |-> top[i].item, confidence_score |-> top[i].score]]

\* get_recommendations(preferences, context, limit=3).  Every exception is caught
\* and answered with [].  The body of the loop over the top `limit` items builds
\* MenuItem(**alt_item) from the items after them (a MenuItem is no mapping:
\* TypeError when there are any) and then calls
\* self._generate_recommendation_reasoning, a name MealSelector does not define
\* (AttributeError).
get_recommendations(preferences) ==
    RecommendationsFrom(ScoreAll(get_all_menu_items, preferences))

\* The scoring loop and the sort of get_recommendations over all_items, before
\* the loop that builds the recommendations: the (item, score) pairs in the
\* order the sort leaves them.  A score that raises ends get_recommendations.
RankItems(all_items, preferences) ==
    LET results == ScoreAll(all_items, preferences)
    IN  IF \E i \in 1..Len(all_items) : results[i].raised # None
        THEN [raised |-> "ZeroDivisionError", value |-> <<>>]
        ELSE [raised |-> None,
              value |-> SortByScore(all_items,
                                    [i \in 1..Len(all_items) |-> results[i].value])]

\* The preferences values the scoring is applied to: each facet set or unset.
\* The spice preference, when set, is between 1 and 5 (schemas.py, ge=1, le=5).
PriceRanges == {NoneTuple, <<1000, 2000>>, <<1300, 1400>>, <<0, 0>>}

ScoredPrefs ==
    {[NoPrefs EXCEPT !.price_range = price_range,
                     !.dietary_restrictions = dietary_restrictions,
                     !.allergies = allergies,
                     !.spice_preference = spice_preference,
                     !.favorite_cuisines = favorite_cuisines,
                     !.dislikes = dislikes] :
        price_range \in PriceRanges,
        dietary_restrictions \in {<<>>, <<"vegetarian">>},
        allergies \in {<<>>, <<"peanuts">>},
        spice_preference \in {NoneInt, 3},
        favorite_cuisines \in {<<>>, <<"italian">>},
        dislikes \in {<<>>, <<"chicken">>}}

\* The orders in which the catalog may list its items
Catalogs == {<<Satay, Margherita>>, <<Margherita, Satay>>}

NoScoring ==
    [pc |-> "idle", item |-> Satay, preferences |-> NoPrefs, all_items |-> menu_data,
     score |-> [raised |-> None, value |-> <<0, 1>>],
     ranked |-> [raised |-> None, value |-> <<>>],
     meals |-> <<>>,
     safe_meals |-> [raised |-> None, value |-> <<>>],
     safe_again |-> [raised |-> None, value |-> <<>>],
     sufficient |-> FALSE,
     updated |-> [raised |-> None, session |-> [preferences |-> NoPrefs]]]

-----------------------------------------------------------------------------
(* preferences_are_sufficient *)

\* Variant: the dislikes are not a category.
preferences_are_sufficientFiveFacets(preferences) ==
    LET count ==
            (IF Len(preferences.dietary_restrictions) > 0 THEN 1 ELSE 0)
          + (IF Len(preferences.favorite_cuisines) > 0 THEN 1 ELSE 0)
          + (IF preferences.price_range # NoneTuple THEN 1 ELSE 0)
          + (IF Len(preferences.allergies) > 0 THEN 1 ELSE 0)
          + (IF preferences.spice_preference # NoneInt THEN 1 ELSE 0)
    IN  count >= 3

preferences_are_sufficient(preferences) ==
    LET count ==
            (IF Len(preferences.dietary_restrictions) > 0 THEN 1 ELSE 0)
          + (IF Len(preferences.favorite_cuisines) > 0 THEN 1 ELSE 0)
          + (IF preferences.price_range # NoneTuple THEN 1 ELSE 0)
          + (IF Len(preferences.allergies) > 0 THEN 1 ELSE 0)
          + (IF preferences.spice_preference # NoneInt THEN 1 ELSE 0)
          + (IF Len(preferences.dislikes) > 0 THEN 1 ELSE 0)
    IN  count >= 3


-----------------------------------------------------------------------------
(* LLMService: generate_response *)

\* self.gemini_service and self.ollama_service after _init_services: both
\* clients were constructed.
gemini_service == TRUE
ollama_service == TRUE

\* Variant: generate_response without the threshold check.
GenerateEntryNoThreshold(errors, provider) ==
    IF provider = "gemini"
    THEN [current_provider |-> provider, branch |-> "gemini_first", awaiting |-> "gemini"]
    ELSE [current_provider |-> provider, branch |-> "ollama_first", awaiting |-> "ollama"]

\* generate_response up to its first await: the threshold check forces Ollama,
\* then the active provider is tried first.
GenerateEntry(errors, provider) ==
    LET forced ==
            IF errors >= fallback_threshold_errors /\ use_ollama_fallback
            THEN "ollama" ELSE provider
    IN  IF forced = "gemini" /\ gemini_service
        THEN [current_provider |-> forced, branch |-> "gemini_first", awaiting |-> "gemini"]
        ELSE [current_provider |-> forced, branch |-> "ollama_first", awaiting |-> "ollama"]

\* Variant: generate_response that gives up when the backend it tried first fails.
GenerateResumeNoBackup(branch, awaiting, ok, use_fallback, errors, provider) ==
    [next |-> IF ok THEN "return" ELSE "raise", awaiting |-> "none",
     provider |-> IF ok THEN awaiting ELSE "none", fallback_used |-> FALSE,
     error |-> IF ok THEN None ELSE awaiting \o "_error",
     consecutive_errors |-> IF awaiting = "gemini" THEN (IF ok THEN 0 ELSE errors + 1)
                            ELSE errors,
     current_provider |-> provider]

\* Variant: generate_response whose Gemini backup, after Ollama failed as the
\* active provider, returns Gemini's text without resetting consecutive_errors
\* or switching current_provider back.
GenerateResumeNoSwitchBack(branch, awaiting, ok, use_fallback, errors, provider) ==
    LET go(next, await_on, served, fallback_used, error, errs, prov) ==
            [next |-> next, awaiting |-> await_on, provider |-> served,
             fallback_used |-> fallback_used, error |-> error,
             consecutive_errors |-> errs, current_provider |-> prov]
    IN  IF branch = "gemini_first" /\ awaiting = "gemini" THEN
            IF ok THEN go("return", "none", "gemini", FALSE, None, 0, provider)
            ELSE go("await", "ollama", "none", FALSE, None, errors + 1, provider)
        ELSE IF branch = "gemini_first" THEN
            IF ok THEN go("return", "none", "ollama", TRUE, None, errors, provider)
            ELSE go("raise", "none", "none", FALSE, "All LLM providers failed", errors, provider)
        ELSE IF awaiting = "ollama" THEN
            IF ok THEN go("return", "none", "ollama", FALSE, None, errors, provider)
            ELSE go("await", "gemini", "none", FALSE, None, errors, provider)
        ELSE
            IF ok THEN go("return", "none", "gemini", FALSE, None, errors, provider)
            ELSE go("raise", "none", "none", FALSE, "Both LLM providers failed", errors, provider)

\* Variant: generate_response that goes back to Gemini when the Ollama fallback
\* fails, and to Ollama when the Gemini backup fails.
GenerateResumeRetries(branch, awaiting, ok, use_fallback, errors, provider) ==
    LET go(next, await_on, served, fallback_used, error, errs, prov) ==
            [next |-> next, awaiting |-> await_on, provider |-> served,
             fallback_used |-> fallback_used, error |-> error,
             consecutive_errors |-> errs, current_provider |-> prov]
    IN  IF branch = "gemini_first" /\ awaiting = "gemini" THEN
            IF ok THEN go("return", "none", "gemini", FALSE, None, 0, provider)
            ELSE go("await", "ollama", "none", FALSE, None, Min(errors + 1, 3), provider)
        ELSE IF branch = "gemini_first" THEN
            IF ok THEN go("return", "none", "ollama", TRUE, None, errors, provider)
            ELSE go("await", "gemini", "none", FALSE, None, errors, provider)
        ELSE IF awaiting = "ollama" THEN
            IF ok THEN go("return", "none", "ollama", FALSE, None, errors, provider)
            ELSE go("await", "gemini", "none", FALSE, None, errors, provider)
        ELSE
            IF ok THEN go("return", "none", "gemini", FALSE, None, 0, "gemini")
            ELSE go("await", "ollama", "none", FALSE, None, errors, provider)

\* generate_response from the completion of the backend call it awaited (ok: the
\* backend returned text) to its next await, its return or its raise.
GenerateResume(branch, awaiting, ok, use_fallback, errors, provider) ==
    LET go(next, await_on, served, fallback_used, error, errs, prov) ==
            [next |-> next, awaiting |-> await_on, provider |-> served,
             fallback_used |-> fallback_used, error |-> error,
             consecutive_errors |-> errs, current_provider |-> prov]
    IN  IF branch = "gemini_first" /\ awaiting = "gemini" THEN
            IF ok THEN go("return", "none", "gemini", FALSE, None, 0, provider)
            ELSE IF use_fallback /\ use_ollama_fallback /\ ollama_service
                 THEN go("await", "ollama", "none", FALSE, None, errors + 1, provider)
                 ELSE go("raise", "none", "none", FALSE, "gemini_error", errors + 1, provider)
        ELSE IF branch = "gemini_first" THEN
            IF ok THEN go("return", "none", "ollama", TRUE, None, errors, provider)
            ELSE go("raise", "none", "none", FALSE, "All LLM providers failed", errors, provider)
        ELSE IF awaiting = "ollama" THEN
            IF ok THEN go("return", "none", "ollama", FALSE, None, errors, provider)
            ELSE IF gemini_service
                 THEN go("await", "gemini", "none", FALSE, None, errors, provider)
                 ELSE go("raise", "none", "none", FALSE, "ollama_error", errors, provider)
        ELSE
            IF ok THEN go("return", "none", "gemini", FALSE, None, 0, "gemini")
            ELSE go("raise", "none", "none", FALSE, "Both LLM providers failed", errors, provider)

\* Both backends answer.
BackendsUp == [gemini |-> TRUE, ollama |-> TRUE]

\* What generate_response returns
GenerateResult(gen) ==
    [status |-> "generated", provider |-> gen.provider,
     fallback_used |-> gen.fallback_used]

\* What a backend's text is to the caller that parses it: a JSON object asking
\* for recommendations, a JSON object that does not, a JSON array of strings, or
\* text json.loads rejects.  A caller that passes the text on sees "text".
StructuredTexts == {"json_recommend", "json_plain", "json_array", "not_json"}
TextsFor(stage) ==
    IF stage \in {"llm_process", "follow_up"} THEN StructuredTexts ELSE {"text"}

\* LLMService.process_message from the return or raise of its generate_response:
\* the dict it returns.  A parsed value that is not a dict has no .get: the
\* AttributeError is caught by the outer handler.
process_message_result(gen, text) ==
    IF gen.next = "raise" THEN
        [message |-> "I'm sorry, I'm experiencing technical difficulties. Please try again in a moment.",
         should_recommend_meals |-> FALSE, error |-> gen.error]
    ELSE IF text = "not_json" THEN
        [message |-> "I apologize, but I'm having trouble processing your request. Could you please rephrase it?",
         should_recommend_meals |-> FALSE, error |-> "json_parse_error"]
    ELSE IF text = "json_array" THEN
        [message |-> "I'm sorry, I'm experiencing technical difficulties. Please try again in a moment.",
         should_recommend_meals |-> FALSE, error |-> "AttributeError"]
    ELSE
        [message |-> "llm message",
         should_recommend_meals |-> (text = "json_recommend"), error |-> None]

\* generate_follow_up_questions from the return or raise of its generate_response:
\* "questions" (what json.loads gave when it is a list of strings), "defaults"
\* (either fixed list), or "object" (json.loads gave a dict, returned as it is).
follow_up_result(gen, text) ==
    IF gen.next = "raise" THEN "defaults"
    ELSE IF text = "not_json" THEN "defaults"
    ELSE IF text = "json_array" THEN "questions"
    ELSE "object"

\* generate_welcome_message from the return or raise of its generate_response
welcome_result(gen) ==
    IF gen.next = "raise"
    THEN "Welcome to " \o APP_NAME \o "! I'm your AI assistant, ready to help you find the perfect meal. How can I assist you today?"
    ELSE "llm welcome"


-----------------------------------------------------------------------------
(* LLMService: health_check.  Times are in seconds. *)

\* The fields __init__ sets, at the earliest time.time() that matters: the first
\* health_check is never within the interval of last_health_check = 0.
NoHealthCheck ==
    [now |-> health_check_interval_minutes * 60,
     last_health_check |-> 0, gemini_healthy |-> TRUE, ollama_healthy |-> TRUE,
     pc |-> "idle", probes |-> <<>>, result |-> [none |-> TRUE]]

\* What health_check returns
HealthResult(gemini_healthy, ollama_healthy) ==
    [gemini |-> gemini_healthy, ollama |-> ollama_healthy]

-----------------------------------------------------------------------------
(* ConversationManager: helpers *)

\* Messages the clients send
MessagesSent == {"hello", "Tell me more", "show me more"}

more_info_phrases ==
    <<"more about", "information", "details", "tell me more", "what else",
      "nutritional", "describe", "explain", "recommend side", "side dish">>

more_options_phrases ==
    <<"more options", "see more options", "next", "another", "show me more">>

IsMoreInfo(message) == AnyPhraseIn(more_info_phrases, lower(message))
IsMoreOptions(message) == AnyPhraseIn(more_options_phrases, lower(message))

\* session[key] = value
SetItem(session, key, value) == (key :> value) @@ session

\* session.get("filtered_meals", [])
GetFilteredMeals(session) ==
    IF "filtered_meals" \in DOMAIN session THEN session.filtered_meals ELSE <<>>

\* Variant: the cursor is set to 0 on every turn.
InitShownIndexReset(session) ==
    IF "shown_index" \in DOMAIN session
    THEN [session EXCEPT !.shown_index = 0]
    ELSE SetItem(session, "shown_index", 0)

\* if "shown_index" not in session: session["shown_index"] = 0
InitShownIndex(session) ==
    IF "shown_index" \in DOMAIN session THEN session ELSE SetItem(session, "shown_index", 0)

\* [rec.meal for rec in filtered_meals]
MealsOf(filtered_meals) == [i \in 1..Len(filtered_meals) |-> filtered_meals[i].meal]

\* session["filtered_meals"] = filtered_meals, unless the filter raised
FilteredInto(session, filtered) ==
    IF filtered.raised # None
    THEN [raised |-> filtered.raised, session |-> session]
    ELSE [raised |-> None, session |-> SetItem(session, "filtered_meals", filtered.value)]

\* _update_filtered_meals from the recommendations on: the allergen filter and
\* the assignment to session["filtered_meals"].
StoreFilteredMeals(session, recommended) ==
    FilteredInto(session,
                 IF Len(session.preferences.allergies) > 0
                 THEN filter_allergens(recommended, session.preferences.allergies)
                 ELSE [raised |-> None, value |-> recommended])

\* _update_filtered_meals(session): [raised, session]
_update_filtered_meals(session) ==
    IF preferences_are_sufficient(session.preferences)
    THEN StoreFilteredMeals(session, get_recommendations(session.preferences))
    ELSE [raised |-> None, session |-> SetItem(session, "filtered_meals", <<>>)]

ChatMessage(role, content) == [role |-> role, content |-> content]

NoResult == [status |-> "none"]
Raised(error) == [status |-> "raised", error |-> error]
ChatResponse(kind, message, suggested_meals) ==
    [status |-> "reply", kind |-> kind, message |-> message,
     suggested_meals |-> suggested_meals]

RecommendMessage(meal) == "I recommend the " \o meal.name
HowAboutMessage(meal) == "How about " \o meal.name
ExhaustedMessage ==
    "I've shown you all the best matches. Would you like to adjust your preferences or try a different cuisine?"

\* The reply of a more-options turn, from the cursor it has just advanced.
MoreOptionsResponse(shown_index, filtered_meals) ==
    IF shown_index < Len(filtered_meals)
    THEN ChatResponse("how_about", HowAboutMessage(filtered_meals[shown_index + 1].meal),
                      MealsOf(filtered_meals))
    ELSE ChatResponse("exhausted", ExhaustedMessage, MealsOf(filtered_meals))

IdleTask ==
    [pc |-> "idle", op |-> "none", session_id |-> 0, message |-> "",
     preferences |-> NoneObj, stage |-> "none", branch |-> "none",
     awaiting |-> "none", filtered_meals |-> <<>>, session |-> NoneObj,
     llm_response |-> NoneObj, suggested_meals |-> <<>>,
     generations |-> 0, attempts |-> <<>>, entered |-> NoneObj,
     generate |-> "none", result |-> NoResult]

\* The session dict a suspended handler holds: the one in the store, or the one
\* end_conversation has deleted from it since.
SessionOf(t) ==
    IF tasks[t].session_id \in DOMAIN active_sessions
    THEN active_sessions[tasks[t].session_id]
    ELSE tasks[t].session


-----------------------------------------------------------------------------
(* The state machine *)

EmptyDict == [k \in {} |-> NoneObj]

\* d[key] = value, and del d[key]
Put(d, key, value) == [k \in DOMAIN d \cup {key} |-> IF k = key THEN value ELSE d[k]]
\* Variant: a deletion that empties the store.
DelAll(d, key) == [k \in {} |-> d[k]]
Del(d, key) == [k \in DOMAIN d \ {key} |-> d[k]]

Init ==
    /\ active_sessions = EmptyDict
    /\ next_session = 0
    /\ issued = {}
    /\ consecutive_errors = 0
    /\ current_provider = "gemini"
    /\ tasks = [t \in Tasks |-> IdleTask]
    /\ gen_history = <<>>
    /\ ncalls = 0
    /\ scoring = NoScoring
    /\ health = NoHealthCheck
    /\ checking = NoChecking
    /\ backends = BackendsUp

\* A handler may start in a slot no suspended handler occupies.
CanStart(t) == tasks[t].pc # "await" /\ ncalls < MaxCalls

Finish(t, task, result) ==
    tasks' = [tasks EXCEPT ![t] = [task EXCEPT !.pc = "done", !.result = result]]

\* The handler in slot t calls generate_response, with the provider state as it
\* is then, and suspends on its first backend.
\* The caller's frame after the backend call it awaited completed
AfterAnswer(task, ok, gen) ==
    [task EXCEPT !.attempts = Append(@, [provider |-> task.awaiting, ok |-> ok]),
                 !.awaiting = gen.awaiting,
                 !.pc = IF gen.next = "await" THEN "await" ELSE "done",
                 !.generate = IF gen.next = "await" THEN "running"
                              ELSE IF gen.next = "return" THEN "returned"
                              ELSE "raised",
                 !.result = IF gen.next = "await" THEN @
                            ELSE IF gen.next = "return" THEN GenerateResult(gen)
                            ELSE Raised("Exception")]

BeginGenerate(t, task, stage, errors, provider) ==
    LET entry == GenerateEntry(errors, provider) IN
    /\ current_provider' = entry.current_provider
    /\ tasks' = [tasks EXCEPT ![t] =
                    [task EXCEPT !.pc = "await", !.stage = stage,
                                 !.branch = entry.branch, !.awaiting = entry.awaiting,
                                 !.attempts = <<>>, !.generate = "running",
                                 !.entered = [consecutive_errors |-> errors,
                                              current_provider |-> provider],
                                 !.generations = @ + 1]]

\* The last fallback_threshold_errors completed generate_response calls
Remember(summary) ==
    LET all == Append(gen_history, summary)
    IN  SubSeq(all, Max(1, Len(all) - fallback_threshold_errors + 1), Len(all))

\* start_conversation after _update_filtered_meals(session)
StartReply(t, task, updated) ==
    LET session == updated.session IN
    /\ active_sessions' = Put(active_sessions, task.session_id, session)
    /\ IF updated.raised # None THEN
           /\ Finish(t, task, Raised(updated.raised))
           /\ UNCHANGED <<issued, current_provider>>
       ELSE IF Len(session.filtered_meals) > 0 THEN
           /\ Finish(t, task,
                     ChatResponse("recommend",
                                  RecommendMessage(session.filtered_meals[1].meal),
                                  MealsOf(session.filtered_meals)))
           /\ issued' = issued \cup {task.session_id}
           /\ UNCHANGED current_provider
       ELSE
           /\ BeginGenerate(t, task, "welcome", consecutive_errors, current_provider)
           /\ UNCHANGED issued

\* start_conversation(preferences)
StartConversation(t, preferences) ==
    /\ CanStart(t)
    /\ UNCHANGED <<scoring, health, checking, backends>>
    /\ next_session' = next_session + 1
    /\ ncalls' = ncalls + 1
    /\ StartReply(t,
                  [IdleTask EXCEPT !.op = "start", !.session_id = next_session + 1,
                                   !.preferences = preferences],
                  _update_filtered_meals(
                      [messages |-> <<>>,
                       preferences |-> IF preferences = NoneObj THEN NoPrefs
                                       ELSE preferences]))
    /\ UNCHANGED <<consecutive_errors, gen_history>>

\* HandleIntent with the two phrase tests in the other order: a message with a
\* "more options" phrase moves the cursor whatever else it contains.
HandleIntentOptionsFirst(t, task, session) ==
    LET session_id == task.session_id
        message == task.message
        filtered_meals == GetFilteredMeals(session)
        shown_index == session.shown_index
    IN
    IF Len(filtered_meals) > 0 /\ shown_index >= Len(filtered_meals) THEN
        /\ active_sessions' = Put(active_sessions, session_id, session)
        /\ Finish(t, task, Raised("IndexError"))
        /\ UNCHANGED current_provider
    ELSE IF IsMoreOptions(message) THEN
        /\ active_sessions' =
               Put(active_sessions, session_id,
                   [session EXCEPT !.shown_index = shown_index + 1])
        /\ Finish(t, task, MoreOptionsResponse(shown_index + 1, filtered_meals))
        /\ UNCHANGED current_provider
    ELSE IF IsMoreInfo(message) THEN
        /\ active_sessions' = Put(active_sessions, session_id, session)
        /\ IF /\ Len(filtered_meals) > 0
              /\ "cuisine_type" \notin DOMAIN filtered_meals[shown_index + 1].meal
           THEN /\ Finish(t, task, Raised("AttributeError"))
                /\ UNCHANGED current_provider
           ELSE BeginGenerate(t, [task EXCEPT !.filtered_meals = filtered_meals],
                              "more_info", consecutive_errors, current_provider)
    ELSE IF Len(filtered_meals) > 0 THEN
        /\ active_sessions' = Put(active_sessions, session_id, session)
        /\ Finish(t, task,
                  ChatResponse("recommend",
                               RecommendMessage(filtered_meals[shown_index + 1].meal),
                               MealsOf(filtered_meals)))
        /\ UNCHANGED current_provider
    ELSE
        /\ active_sessions' = Put(active_sessions, session_id, session)
        /\ BeginGenerate(t, task, "llm_process", consecutive_errors, current_provider)

\* process_message from the intent detection on, up to its first await: session
\* is the session dict with the user message appended and shown_index present.
HandleIntent(t, task, session) ==
    LET session_id == task.session_id
        message == task.message
        filtered_meals == GetFilteredMeals(session)
        shown_index == session.shown_index
    IN
    IF Len(filtered_meals) > 0 /\ shown_index >= Len(filtered_meals) THEN
        \* current_meal = filtered_meals[session["shown_index"]].meal
        /\ active_sessions' = Put(active_sessions, session_id, session)
        /\ Finish(t, task, Raised("IndexError"))
        /\ UNCHANGED current_provider
    ELSE IF IsMoreInfo(message) THEN
        /\ active_sessions' = Put(active_sessions, session_id, session)
        /\ IF /\ Len(filtered_meals) > 0
              /\ "cuisine_type" \notin DOMAIN filtered_meals[shown_index + 1].meal
           THEN \* current_meal.cuisine_type: MenuItem has no such field
                /\ Finish(t, task, Raised("AttributeError"))
                /\ UNCHANGED current_provider
           ELSE BeginGenerate(t, [task EXCEPT !.filtered_meals = filtered_meals],
                              "more_info", consecutive_errors, current_provider)
    ELSE IF IsMoreOptions(message) THEN
        /\ active_sessions' =
               Put(active_sessions, session_id,
                   [session EXCEPT !.shown_index = shown_index + 1])
        /\ Finish(t, task, MoreOptionsResponse(shown_index + 1, filtered_meals))
        /\ UNCHANGED current_provider
    ELSE IF Len(filtered_meals) > 0 THEN
        /\ active_sessions' = Put(active_sessions, session_id, session)
        /\ Finish(t, task,
                  ChatResponse("recommend",
                               RecommendMessage(filtered_meals[shown_index + 1].meal),
                               MealsOf(filtered_meals)))
        /\ UNCHANGED current_provider
    ELSE
        /\ active_sessions' = Put(active_sessions, session_id, session)
        /\ BeginGenerate(t, task, "llm_process", consecutive_errors, current_provider)

\* process_message after the preferences were replaced and filtered_meals
\* recomputed: the user message is appended and the cursor created.
AfterUpdate(t, task, updated) ==
    IF updated.raised # None THEN
        /\ active_sessions' = Put(active_sessions, task.session_id, updated.session)
        /\ Finish(t, task, Raised(updated.raised))
        /\ UNCHANGED current_provider
    ELSE HandleIntent(t, task,
                      InitShownIndex(
                          [updated.session EXCEPT
                              !.messages = Append(@, ChatMessage("user", task.message))]))

\* process_message(message, session_id, preferences) up to its first await
ProcessTurn(t, session_id, message, preferences) ==
    /\ CanStart(t)
    /\ UNCHANGED <<scoring, health, checking, backends>>
    /\ ncalls' = ncalls + 1
    /\ UNCHANGED <<next_session, issued, consecutive_errors, gen_history>>
    /\ IF session_id \notin DOMAIN active_sessions THEN
           /\ Finish(t, [IdleTask EXCEPT !.op = "turn", !.session_id = session_id,
                                         !.message = message, !.preferences = preferences],
                     Raised("ValueError"))
           /\ UNCHANGED <<active_sessions, current_provider>>
       ELSE AfterUpdate(t,
                        [IdleTask EXCEPT !.op = "turn", !.session_id = session_id,
                                         !.message = message, !.preferences = preferences],
                        IF preferences # NoneObj
                        THEN _update_filtered_meals(
                                 [active_sessions[session_id] EXCEPT
                                     !.preferences = preferences])
                        ELSE [raised |-> None, session |-> active_sessions[session_id]])

\* routes_chat.chat: one generate_response call, use_fallback=True
Chat(t) ==
    /\ CanStart(t)
    /\ UNCHANGED <<scoring, health, checking, backends>>
    /\ ncalls' = ncalls + 1
    /\ BeginGenerate(t, [IdleTask EXCEPT !.op = "chat"], "chat",
                     consecutive_errors, current_provider)
    /\ UNCHANGED <<active_sessions, next_session, issued, consecutive_errors, gen_history>>

\* Variant: get_chat_history that creates the session it does not find
\* (active_sessions.setdefault) and returns its empty history.
GetChatHistoryOrCreate(t, session_id) ==
    /\ CanStart(t)
    /\ UNCHANGED <<scoring, health, checking, backends>>
    /\ ncalls' = ncalls + 1
    /\ active_sessions' =
           IF session_id \in DOMAIN active_sessions THEN active_sessions
           ELSE Put(active_sessions, session_id, [messages |-> <<>>, preferences |-> NoPrefs])
    /\ Finish(t, [IdleTask EXCEPT !.op = "history", !.session_id = session_id],
              [status |-> "history", messages |-> active_sessions'[session_id].messages])
    /\ UNCHANGED <<next_session, issued, consecutive_errors, current_provider, gen_history>>

\* get_chat_history(session_id)
GetChatHistory(t, session_id) ==
    /\ CanStart(t)
    /\ UNCHANGED <<scoring, health, checking, backends>>
    /\ ncalls' = ncalls + 1
    /\ Finish(t, [IdleTask EXCEPT !.op = "history", !.session_id = session_id],
              IF session_id \in DOMAIN active_sessions
              THEN [status |-> "history", messages |-> active_sessions[session_id].messages]
              ELSE Raised("ValueError"))
    /\ UNCHANGED <<active_sessions, next_session, issued, consecutive_errors,
                   current_provider, gen_history>>

\* Variant: end_conversation that logs the summary and leaves the session in
\* active_sessions.
EndConversationKeepsSession(t, session_id) ==
    /\ CanStart(t)
    /\ UNCHANGED <<scoring, health, checking, backends>>
    /\ ncalls' = ncalls + 1
    /\ Finish(t, [IdleTask EXCEPT !.op = "end", !.session_id = session_id],
              IF session_id \in DOMAIN active_sessions
              THEN [status |-> "ended"]
              ELSE Raised("ValueError"))
    /\ UNCHANGED <<active_sessions, next_session, issued, consecutive_errors,
                   current_provider, gen_history>>

\* end_conversation(session_id).  A handler suspended in a turn of that session
\* keeps the dict it holds.
\* Variant: end_conversation that leaves the session in the store while a
\* handler of that session is suspended.
EndConversationSparesBusy(t, session_id) ==
    /\ CanStart(t)
    /\ UNCHANGED <<scoring, health, checking, backends>>
    /\ ncalls' = ncalls + 1
    /\ IF session_id \in DOMAIN active_sessions THEN
           /\ active_sessions' =
                  IF \E u \in Tasks : /\ tasks[u].pc = "await"
                                      /\ tasks[u].session_id = session_id
                  THEN active_sessions
                  ELSE Del(active_sessions, session_id)
           /\ tasks' = [u \in Tasks |->
                IF u = t
                THEN [IdleTask EXCEPT !.op = "end", !.session_id = session_id,
                                      !.pc = "done", !.result = [status |-> "ended"]]
                ELSE IF tasks[u].pc = "await" /\ tasks[u].session_id = session_id
                THEN [tasks[u] EXCEPT !.session = active_sessions[session_id]]
                ELSE tasks[u]]
       ELSE
           /\ Finish(t, [IdleTask EXCEPT !.op = "end", !.session_id = session_id],
                     Raised("ValueError"))
           /\ UNCHANGED active_sessions
    /\ UNCHANGED <<next_session, issued, consecutive_errors, current_provider, gen_history>>

EndConversation(t, session_id) ==
    /\ CanStart(t)
    /\ UNCHANGED <<scoring, health, checking, backends>>
    /\ ncalls' = ncalls + 1
    /\ IF session_id \in DOMAIN active_sessions THEN
           /\ active_sessions' = Del(active_sessions, session_id)
           /\ tasks' = [u \in Tasks |->
                IF u = t
                THEN [IdleTask EXCEPT !.op = "end", !.session_id = session_id,
                                      !.pc = "done", !.result = [status |-> "ended"]]
                ELSE IF tasks[u].pc = "await" /\ tasks[u].session_id = session_id
                THEN [tasks[u] EXCEPT !.session = active_sessions[session_id]]
                ELSE tasks[u]]
       ELSE
           /\ Finish(t, [IdleTask EXCEPT !.op = "end", !.session_id = session_id],
                     Raised("ValueError"))
           /\ UNCHANGED active_sessions
    /\ UNCHANGED <<next_session, issued, consecutive_errors, current_provider, gen_history>>


\* The reply of routes_chat.chat
ChatResult(gen) ==
    IF gen.next = "raise" THEN Raised("HTTPException")
    ELSE [status |-> "reply", kind |-> "chat", message |-> "text",
          suggested_meals |-> <<>>, provider |-> gen.provider,
          fallback_used |-> gen.fallback_used]

\* process_message after llm_service.process_message returned: recommended is
\* what get_recommendations gave (nothing when it was not called).
AfterProcessMessage(t, task, gen, recommended) ==
    LET filtered ==
            IF Len(recommended) > 0
            THEN filter_allergens(recommended, SessionOf(t).preferences.allergies)
            ELSE [raised |-> None, value |-> recommended]
        held == [task EXCEPT !.suggested_meals = filtered.value]
    IN  /\ UNCHANGED <<active_sessions, issued>>
        /\ IF filtered.raised # None THEN
               /\ Finish(t, held, Raised(filtered.raised))
               /\ current_provider' = gen.current_provider
           ELSE IF Len(filtered.value) > 0 THEN
               \* json.dumps(suggested_meals): not JSON serializable
               /\ Finish(t, held, Raised("TypeError"))
               /\ current_provider' = gen.current_provider
           ELSE BeginGenerate(t, held, "follow_up",
                              gen.consecutive_errors, gen.current_provider)

\* The backend call the handler in slot t awaits completes, with text or with a
\* failure; the handler runs on to its next await or to its end.
BackendReturns(t, text) ==
    /\ tasks[t].pc = "await"
    /\ UNCHANGED <<scoring, health, checking, backends>>
    /\ text \in TextsFor(tasks[t].stage) \cup {"fail"}
    /\ UNCHANGED <<next_session, ncalls>>
    /\ LET task0 == tasks[t]
           ok == text # "fail"
           gen == GenerateResume(task0.branch, task0.awaiting, ok, TRUE,
                                 consecutive_errors, current_provider)
           attempts == Append(task0.attempts, [provider |-> task0.awaiting, ok |-> ok])
           task == [task0 EXCEPT !.attempts = attempts, !.awaiting = gen.awaiting,
                                 !.generate = IF gen.next = "await" THEN "running"
                                              ELSE IF gen.next = "return" THEN "returned"
                                              ELSE "raised"]
           summary == [primary_failed |->
                           \E i \in 1..Len(attempts) :
                               attempts[i].provider = "gemini" /\ ~attempts[i].ok,
                       first |-> attempts[1].provider,
                       provider |-> gen.provider,
                       fallback_used |-> gen.fallback_used,
                       attempts |-> attempts,
                       error |-> gen.error]
           session_id == task0.session_id
       IN
       /\ consecutive_errors' = gen.consecutive_errors
       /\ IF gen.next = "await" THEN
              /\ tasks' = [tasks EXCEPT ![t] = task]
              /\ current_provider' = gen.current_provider
              /\ UNCHANGED <<active_sessions, issued, gen_history>>
          ELSE
          /\ gen_history' = Remember(summary)
          /\ IF task.stage = "chat" THEN
                 /\ Finish(t, task, ChatResult(gen))
                 /\ current_provider' = gen.current_provider
                 /\ UNCHANGED <<active_sessions, issued>>
             ELSE IF task.stage = "welcome" THEN
                 /\ Finish(t, task, ChatResponse("welcome", welcome_result(gen), <<>>))
                 /\ issued' = issued \cup {session_id}
                 /\ current_provider' = gen.current_provider
                 /\ UNCHANGED active_sessions
             ELSE IF task.stage = "more_info" THEN
                 /\ Finish(t, task,
                           IF gen.next = "raise" THEN Raised("Exception")
                           ELSE ChatResponse("info", "text", MealsOf(task.filtered_meals)))
                 /\ current_provider' = gen.current_provider
                 /\ UNCHANGED <<active_sessions, issued>>
             ELSE IF task.stage = "llm_process" THEN
                 AfterProcessMessage(
                     t, [task EXCEPT !.llm_response = process_message_result(gen, text)],
                     gen,
                     IF process_message_result(gen, text).should_recommend_meals
                     THEN get_recommendations(SessionOf(t).preferences) ELSE <<>>)
             ELSE
                 LET follow_up == follow_up_result(gen, text)
                     response == ChatResponse("llm", task.llm_response.message,
                                              task.suggested_meals)
                     said == ChatMessage("assistant", response.message)
                 IN  /\ current_provider' = gen.current_provider
                     /\ UNCHANGED issued
                     /\ IF follow_up = "object" THEN
                            \* ChatResponse(follow_up_questions=<a dict>)
                            /\ Finish(t, task, Raised("ValidationError"))
                            /\ UNCHANGED active_sessions
                        ELSE IF session_id \in DOMAIN active_sessions THEN
                            /\ Finish(t, task, response)
                            /\ active_sessions' =
                                   [active_sessions EXCEPT
                                       ![session_id].messages = Append(@, said)]
                        ELSE
                            /\ Finish(t, [task EXCEPT !.session =
                                             [@ EXCEPT !.messages = Append(@, said)]],
                                      response)
                            /\ UNCHANGED active_sessions

\* The handler in slot t is cancelled while it awaits a backend: CancelledError,
\* a BaseException, is raised at the await, passes every "except Exception" and
\* ends the handler.  Nothing the handler has written is undone.
Cancel(t) ==
    /\ tasks[t].pc = "await"
    /\ UNCHANGED <<scoring, health, checking, backends>>
    /\ tasks' = [tasks EXCEPT ![t] =
                    [@ EXCEPT !.pc = "done", !.awaiting = "none",
                              !.generate = "cancelled",
                              !.result = Raised("CancelledError")]]
    /\ UNCHANGED <<active_sessions, next_session, issued, consecutive_errors,
                   current_provider, gen_history, ncalls>>

PrefArgs == PrefsSent \cup {NoneObj}

\* The session ids a client can send: those it was given, and one never issued.
SessionArgs == issued \cup {0}

BackendTexts == StructuredTexts \cup {"text", "fail"}

\* One step of the handler in slot t: a request arrives (its arguments drawn from
\* the given sets) or the backend call it awaits completes.
Step(t, prefs, messages, texts) ==
    \/ \E preferences \in prefs : StartConversation(t, preferences)
    \/ \E session_id \in SessionArgs, message \in messages, preferences \in prefs :
           ProcessTurn(t, session_id, message, preferences)
    \/ Chat(t)
    \/ \E session_id \in SessionArgs : GetChatHistory(t, session_id)
    \/ \E session_id \in SessionArgs : EndConversation(t, session_id)
    \/ \E text \in texts : BackendReturns(t, text)
    \/ Cancel(t)

\* One request at a time: each handler runs to its end before the next starts.
Next == Step(1, PrefArgs, MessagesSent, BackendTexts)

Spec == Init /\ [][Next]_vars

\* Requests overlap: a handler may start while others are suspended.  The
\* clients send no preferences and the backends answer with a list or fail.
ConcurrentMessages == {"hello", "show me more"}
ConcurrentTexts == {"text", "json_array", "fail"}

NextConcurrent ==
    \E t \in Tasks : Step(t, {NoneObj}, ConcurrentMessages, ConcurrentTexts)

SpecConcurrent == Init /\ [][NextConcurrent]_vars

\* One request at a time, from clients that send no preferences, and a backend
\* call that is awaited completes: the backends answer or fail within their HTTP
\* timeouts, and the event loop then resumes the handler.
LiveMessages == {"hello"}

NextLive == Step(1, {NoneObj}, LiveMessages, ConcurrentTexts)

BackendsAnswer == WF_vars(\E text \in ConcurrentTexts : BackendReturns(1, text))

SpecLive == Init /\ [][NextLive]_vars /\ BackendsAnswer

\* One request at a time, from clients that send no preferences and whose
\* messages carry a "more info" phrase, a "more options" phrase, or both.
IntentMessages == {"Tell me more", "show me more", "Tell me more about another dish"}

NextIntent == Step(1, {NoneObj}, IntentMessages, ConcurrentTexts)

SpecIntent == Init /\ [][NextIntent]_vars

\* The LLM service alone, one call at a time and without end: a caller awaits
\* generate_response, the backend it waits for answers or fails according to
\* its condition, which changes at any time, and reset_error_count is called
\* between generate_response calls.
GenerateResponse ==
    /\ tasks[1].pc # "await"
    /\ BeginGenerate(1, [IdleTask EXCEPT !.op = "generate"], "generate",
                     consecutive_errors, current_provider)
    /\ UNCHANGED <<active_sessions, next_session, issued, consecutive_errors,
                   gen_history, ncalls, scoring, health, checking, backends>>

BackendAnswers ==
    /\ tasks[1].pc = "await"
    /\ tasks[1].op = "generate"
    /\ consecutive_errors' =
           GenerateResume(tasks[1].branch, tasks[1].awaiting,
                          backends[tasks[1].awaiting], TRUE,
                          consecutive_errors, current_provider).consecutive_errors
    /\ current_provider' =
           GenerateResume(tasks[1].branch, tasks[1].awaiting,
                          backends[tasks[1].awaiting], TRUE,
                          consecutive_errors, current_provider).current_provider
    /\ tasks' = [tasks EXCEPT ![1] =
                    AfterAnswer(tasks[1], backends[tasks[1].awaiting],
                                GenerateResume(tasks[1].branch, tasks[1].awaiting,
                                               backends[tasks[1].awaiting], TRUE,
                                               consecutive_errors, current_provider))]
    /\ UNCHANGED <<active_sessions, next_session, issued, gen_history, ncalls,
                   scoring, health, checking, backends>>

\* Variant: reset_error_count that leaves current_provider as it is.
ResetErrorCountKeepsProvider ==
    /\ tasks[1].pc # "await"
    /\ consecutive_errors' = 0
    /\ UNCHANGED <<active_sessions, next_session, issued, current_provider, tasks,
                   gen_history, ncalls, scoring, health, checking, backends>>

ResetErrorCount ==
    /\ tasks[1].pc # "await"
    /\ consecutive_errors' = 0
    /\ current_provider' = "gemini"
    /\ UNCHANGED <<active_sessions, next_session, issued, tasks,
                   gen_history, ncalls, scoring, health, checking, backends>>

\* A backend goes down or comes back.
BackendChanges(provider) ==
    /\ backends' = [backends EXCEPT ![provider] = ~@]
    /\ UNCHANGED <<active_sessions, next_session, issued, consecutive_errors,
                   current_provider, tasks, gen_history, ncalls, scoring, health,
                   checking>>

NextGenerate ==
    \/ GenerateResponse
    \/ BackendAnswers
    \/ ResetErrorCount
    \/ \E provider \in {"gemini", "ollama"} : BackendChanges(provider)

SpecGenerate == Init /\ [][NextGenerate]_vars

\* Callers keep calling generate_response, and a backend call that is awaited
\* completes.
CallsKeepArriving == WF_vars(GenerateResponse) /\ WF_vars(BackendAnswers)

SpecGenerateLive == Init /\ [][NextGenerate]_vars /\ CallsKeepArriving

\* The allergy checker alone: one ingredient and one declared allergy are
\* chosen, the ingredient is checked, then the warnings of a meal made of
\* chicken and that ingredient are collected.
InitCheck ==
    /\ active_sessions = EmptyDict
    /\ next_session = 0
    /\ issued = {}
    /\ consecutive_errors = 0
    /\ current_provider = "gemini"
    /\ tasks = [t \in Tasks |-> IdleTask]
    /\ gen_history = <<>>
    /\ ncalls = 0
    /\ health = NoHealthCheck
    /\ scoring = NoScoring
    /\ backends = BackendsUp
    /\ \E ingredient \in SynonymNames \cup MenuIngredients, allergy \in SynonymNames :
           checking = [NoChecking EXCEPT !.pc = "args", !.ingredient = ingredient,
                                         !.allergies = <<allergy>>]

CheckIngredient ==
    /\ checking.pc = "args"
    /\ checking' = [checking EXCEPT
                       !.pc = "checked",
                       !.found_allergens =
                           _check_ingredient_allergens(checking.ingredient,
                                                       checking.allergies)]
    /\ UNCHANGED <<active_sessions, next_session, issued, consecutive_errors,
                   current_provider, tasks, gen_history, ncalls, scoring, health, backends>>

GetAllergenWarnings ==
    /\ checking.pc = "checked"
    /\ checking' = [checking EXCEPT
                       !.pc = "warned",
                       !.warnings =
                           get_allergen_warnings(
                               [Satay EXCEPT !.ingredients =
                                                 <<"chicken", checking.ingredient>>],
                               checking.allergies, 1)]
    /\ UNCHANGED <<active_sessions, next_session, issued, consecutive_errors,
                   current_provider, tasks, gen_history, ncalls, scoring, health, backends>>

NextCheck == CheckIngredient \/ GetAllergenWarnings

SpecCheck == InitCheck /\ [][NextCheck]_vars

\* The meal selector alone: one item, one preferences value and one listing of
\* the catalog are chosen; the item is scored, then the catalog is ranked.
InitScore ==
    /\ active_sessions = EmptyDict
    /\ next_session = 0
    /\ issued = {}
    /\ consecutive_errors = 0
    /\ current_provider = "gemini"
    /\ tasks = [t \in Tasks |-> IdleTask]
    /\ gen_history = <<>>
    /\ ncalls = 0
    /\ health = NoHealthCheck
    /\ checking = NoChecking
    /\ backends = BackendsUp
    /\ \E item \in Range(menu_data), preferences \in ScoredPrefs, all_items \in Catalogs :
           scoring = [NoScoring EXCEPT !.pc = "args", !.item = item,
                                       !.preferences = preferences,
                                       !.all_items = all_items]

CalculateScore ==
    /\ scoring.pc = "args"
    /\ scoring' = [scoring EXCEPT
                      !.pc = "scored",
                      !.score = _calculate_preference_score(scoring.item,
                                                            scoring.preferences)]
    /\ UNCHANGED <<active_sessions, next_session, issued, consecutive_errors,
                   current_provider, tasks, gen_history, ncalls, health, checking, backends>>

Rank ==
    /\ scoring.pc = "scored"
    /\ scoring' = [scoring EXCEPT
                      !.pc = "ranked",
                      !.ranked = RankItems(scoring.all_items, scoring.preferences)]
    /\ UNCHANGED <<active_sessions, next_session, issued, consecutive_errors,
                   current_provider, tasks, gen_history, ncalls, health, checking, backends>>

\* The lists of MenuItem the allergy filter is given: the contiguous parts of
\* the catalog listing.
MealLists(all_items) ==
    {SubSeq(all_items, i, j) : i \in 1..Len(all_items), j \in 0..Len(all_items)}

\* filter_allergens(meals, preferences.allergies) on a list of MenuItem
FilterAllergens ==
    /\ scoring.pc = "ranked"
    /\ \E meals \in MealLists(scoring.all_items) :
           scoring' = [scoring EXCEPT
                          !.pc = "filtered",
                          !.meals = meals,
                          !.safe_meals =
                              filter_allergens(meals, scoring.preferences.allergies)]
    /\ UNCHANGED <<active_sessions, next_session, issued, consecutive_errors,
                   current_provider, tasks, gen_history, ncalls, health, checking, backends>>

\* filter_allergens applied to what it returned
FilterAgain ==
    /\ scoring.pc = "filtered"
    /\ scoring.safe_meals.raised = None
    /\ scoring' = [scoring EXCEPT
                      !.pc = "filtered_again",
                      !.safe_again =
                          filter_allergens(scoring.safe_meals.value,
                                           scoring.preferences.allergies)]
    /\ UNCHANGED <<active_sessions, next_session, issued, consecutive_errors,
                   current_provider, tasks, gen_history, ncalls, health, checking, backends>>

\* The conversation manager's use of the selector: the chosen preferences are
\* judged for sufficiency and a session holding them gets its filtered_meals.
UpdateFilteredMeals ==
    /\ scoring.pc = "args"
    /\ scoring' = [scoring EXCEPT
                      !.pc = "updated",
                      !.sufficient = preferences_are_sufficient(scoring.preferences),
                      !.updated =
                          _update_filtered_meals(
                              [preferences |-> scoring.preferences])]
    /\ UNCHANGED <<active_sessions, next_session, issued, consecutive_errors,
                   current_provider, tasks, gen_history, ncalls, health, checking, backends>>

NextScore ==
    CalculateScore \/ Rank \/ FilterAllergens \/ FilterAgain \/ UpdateFilteredMeals

SpecScore == InitScore /\ [][NextScore]_vars

\* The health check alone: time passes, health_check is called, and the probe
\* it awaits answers or fails.
MaxTime == 1200
TimeSteps == {299, 300}

Advance(seconds) ==
    /\ health.now + seconds <= MaxTime
    /\ health' = [health EXCEPT !.now = @ + seconds]
    /\ UNCHANGED <<active_sessions, next_session, issued, consecutive_errors,
                   current_provider, tasks, gen_history, ncalls, scoring, checking, backends>>

\* Variant: health_check that probes on every call.
HealthCheckAlwaysProbes ==
    /\ health.pc \in {"idle", "done"}
    /\ health' = [health EXCEPT !.last_health_check = health.now,
                                !.pc = "probe_gemini", !.probes = <<>>,
                                !.result = [none |-> TRUE]]
    /\ UNCHANGED <<active_sessions, next_session, issued, consecutive_errors,
                   current_provider, tasks, gen_history, ncalls, scoring, checking, backends>>

\* health_check up to its return of the cached values or its first await
HealthCheck ==
    /\ health.pc \in {"idle", "done"}
    /\ IF health.now - health.last_health_check < health_check_interval_minutes * 60
       THEN health' = [health EXCEPT
                          !.pc = "done", !.probes = <<>>,
                          !.result = HealthResult(health.gemini_healthy,
                                                  health.ollama_healthy)]
       ELSE health' = [health EXCEPT
                          !.last_health_check = health.now,
                          !.pc = IF gemini_service THEN "probe_gemini"
                                 ELSE IF ollama_service THEN "probe_ollama"
                                 ELSE "done",
                          !.probes = <<>>,
                          !.result = IF gemini_service \/ ollama_service
                                     THEN [none |-> TRUE]
                                     ELSE HealthResult(health.gemini_healthy,
                                                       health.ollama_healthy)]
    /\ UNCHANGED <<active_sessions, next_session, issued, consecutive_errors,
                   current_provider, tasks, gen_history, ncalls, scoring, checking, backends>>

\* Variant: a Gemini probe that fails marks Ollama unhealthy as well.
ProbeReturnsMarksBoth(ok) ==
    /\ health.pc \in {"probe_gemini", "probe_ollama"}
    /\ IF health.pc = "probe_gemini"
       THEN health' = [health EXCEPT
                          !.gemini_healthy = ok,
                          !.ollama_healthy = IF ok THEN @ ELSE FALSE,
                          !.probes = Append(@, [provider |-> "gemini", ok |-> ok]),
                          !.pc = "probe_ollama"]
       ELSE health' = [health EXCEPT
                          !.ollama_healthy = ok /\ health.gemini_healthy,
                          !.probes = Append(@, [provider |-> "ollama", ok |-> ok]),
                          !.pc = "done",
                          !.result = HealthResult(health.gemini_healthy,
                                                  ok /\ health.gemini_healthy)]
    /\ UNCHANGED <<active_sessions, next_session, issued, consecutive_errors,
                   current_provider, tasks, gen_history, ncalls, scoring, checking, backends>>

\* Variant: a probe that fails counts as an error of generate_response.
ProbeReturnsCountsErrors(ok) ==
    /\ health.pc \in {"probe_gemini", "probe_ollama"}
    /\ IF health.pc = "probe_gemini"
       THEN health' = [health EXCEPT
                          !.gemini_healthy = ok,
                          !.probes = Append(@, [provider |-> "gemini", ok |-> ok]),
                          !.pc = "probe_ollama"]
       ELSE health' = [health EXCEPT
                          !.ollama_healthy = ok,
                          !.probes = Append(@, [provider |-> "ollama", ok |-> ok]),
                          !.pc = "done",
                          !.result = HealthResult(health.gemini_healthy, ok)]
    /\ consecutive_errors' =
           IF ok \/ health.pc = "probe_ollama" THEN consecutive_errors
           ELSE Min(consecutive_errors + 1, fallback_threshold_errors)
    /\ UNCHANGED <<active_sessions, next_session, issued,
                   current_provider, tasks, gen_history, ncalls, scoring, checking,
                   backends>>

\* The probe health_check awaits answers (ok) or fails: the result is recorded
\* and health_check goes on to the Ollama probe or returns.
ProbeReturns(ok) ==
    /\ health.pc \in {"probe_gemini", "probe_ollama"}
    /\ IF health.pc = "probe_gemini"
       THEN health' = [health EXCEPT
                          !.gemini_healthy = ok,
                          !.probes = Append(@, [provider |-> "gemini", ok |-> ok]),
                          !.pc = IF ollama_service THEN "probe_ollama" ELSE "done",
                          !.result = IF ollama_service THEN [none |-> TRUE]
                                     ELSE HealthResult(ok, health.ollama_healthy)]
       ELSE health' = [health EXCEPT
                          !.ollama_healthy = ok,
                          !.probes = Append(@, [provider |-> "ollama", ok |-> ok]),
                          !.pc = "done",
                          !.result = HealthResult(health.gemini_healthy, ok)]
    /\ UNCHANGED <<active_sessions, next_session, issued, consecutive_errors,
                   current_provider, tasks, gen_history, ncalls, scoring, checking, backends>>

NextHealth ==
    \/ \E seconds \in TimeSteps : Advance(seconds)
    \/ HealthCheck
    \/ \E ok \in BOOLEAN : ProbeReturns(ok)

SpecHealth == Init /\ [][NextHealth]_vars

\* The LLM service with its health check: generate_response calls and
\* health_check calls, each one at a time, the two kinds overlapping freely.
NextService == NextGenerate \/ NextHealth

SpecService == Init /\ [][NextService]_vars

-----------------------------------------------------------------------------
(* Properties *)

\* session.get("shown_index", 0)
Cursor(session) ==
    IF "shown_index" \in DOMAIN session THEN session.shown_index ELSE 0

\* The handler in slot t is a process_message that found its session and has
\* run to its end without being cancelled.
TurnDone(t) ==
    /\ tasks[t].op = "turn"
    /\ tasks[t].pc = "done"
    /\ tasks[t].generate # "cancelled"
    /\ tasks[t].result # Raised("ValueError")
    /\ tasks[t].session_id \in DOMAIN active_sessions

\* The generate_response calls the handler in slot t has made have all raised.
OutageThroughout(t) ==
    /\ tasks[t].generate = "raised"
    /\ tasks[t].stage = "follow_up" =>
           tasks[t].llm_response.error \in
               {"All LLM providers failed", "Both LLM providers failed"}

\* A completed generate_response call in which Gemini failed and Ollama served
\* the reply as the fallback.
ServedByFallback(summary) ==
    summary.primary_failed /\ summary.provider = "ollama" /\ summary.fallback_used

C2_Exhaustion ==
    \A t \in Tasks :
        (/\ TurnDone(t)
         /\ tasks[t].preferences = NoneObj
         /\ ~IsMoreInfo(tasks[t].message)
         /\ IsMoreOptions(tasks[t].message))
        => LET session == active_sessions[tasks[t].session_id]
               filtered_meals == GetFilteredMeals(session)
               result == tasks[t].result
           IN  /\ Cursor(session) - 1 >= Len(filtered_meals) =>
                      /\ result.status = "reply"
                      /\ result.kind = "exhausted"
                      /\ result.suggested_meals = <<>>
                      /\ Cursor(session) >= Len(filtered_meals)
               /\ (/\ Len(menu_data) = 2
                   /\ preferences_are_sufficient(session.preferences)
                   /\ Len(session.preferences.allergies) = 0
                   /\ Cursor(session) = 1) =>
                      /\ result.status = "reply"
                      /\ result.kind = "how_about"

\* C3: a process_message on a known session whose cursor is out of range returns
\* a reply, whatever the intent of the message.
C3_OutOfRangeReplies ==
    \A t \in Tasks :
        (/\ TurnDone(t)
         /\ LET session == active_sessions[tasks[t].session_id]
            IN  Cursor(session) >= Len(GetFilteredMeals(session)))
        => tasks[t].result.status = "reply"

\* C4: within a session shown_index never decreases, except in a step that is a
\* process_message supplying preferences for that session.
C4_CursorNeverDecreases ==
    [][\A session_id \in DOMAIN active_sessions \cap DOMAIN active_sessions' :
           \/ Cursor(active_sessions'[session_id]) >= Cursor(active_sessions[session_id])
           \/ \E t \in Tasks :
                  /\ tasks'[t] # tasks[t]
                  /\ ncalls' = ncalls + 1
                  /\ tasks'[t].op = "turn"
                  /\ tasks'[t].session_id = session_id
                  /\ tasks'[t].preferences # NoneObj]_vars

\* A session's cursor has advanced twice.
C4_Witness ==
    \E session_id \in DOMAIN active_sessions :
        Cursor(active_sessions[session_id]) = 2

\* C5: a process_message that supplies preferences leaves the session with those
\* preferences and with the cursor counted from 0: at 0, or at 1 when the turn is
\* a "more options" turn, which advances it once.
C5_PreferencesResetCursor ==
    \A t \in Tasks :
        (/\ tasks[t].op = "turn"
         /\ tasks[t].pc \in {"await", "done"}
         /\ tasks[t].preferences # NoneObj
         /\ tasks[t].result.status # "raised"
         /\ tasks[t].session_id \in DOMAIN active_sessions)
        => LET session == active_sessions[tasks[t].session_id]
           IN  /\ session.preferences = tasks[t].preferences
               /\ Cursor(session) =
                      IF ~IsMoreInfo(tasks[t].message) /\ IsMoreOptions(tasks[t].message)
                      THEN 1 ELSE 0

\* C6: start_conversation with sufficient preferences, when the catalog holds an
\* item safe for the declared allergies, makes no generate_response call and
\* replies with a non-empty suggested list; with the preferences of scenario A
\* the vegetarian Italian dish comes first.
C6_StartSurfacesCandidate ==
    \A t \in Tasks :
        (/\ tasks[t].op = "start"
         /\ tasks[t].pc \in {"await", "done"}
         /\ tasks[t].preferences # NoneObj
         /\ preferences_are_sufficient(tasks[t].preferences)
         /\ \E i \in 1..Len(menu_data) :
                MealIsSafe(menu_data[i], tasks[t].preferences.allergies))
        => /\ tasks[t].generations = 0
           /\ tasks[t].pc = "done"
           /\ tasks[t].result.status = "reply"
           /\ Len(tasks[t].result.suggested_meals) > 0
           /\ tasks[t].preferences = PrefsA =>
                  tasks[t].result.suggested_meals[1].name = Margherita.name

\* C7: a generate_response call raises only when Gemini and Ollama were both
\* attempted in it and both failed, and returns whenever a backend it attempted
\* succeeded.
C7_RaisesOnlyWhenBothFailed ==
    \A t \in Tasks :
        LET attempts == tasks[t].attempts
            failed(provider) ==
                \E i \in 1..Len(attempts) :
                    attempts[i].provider = provider /\ ~attempts[i].ok
        IN  /\ tasks[t].generate = "raised" => failed("gemini") /\ failed("ollama")
            /\ (\E i \in 1..Len(attempts) : attempts[i].ok) =>
                   tasks[t].generate = "returned"

\* A generate_response call has raised after Ollama, tried first, and Gemini,
\* tried as its backup, both failed.
C7_Witness ==
    \E t \in Tasks :
        /\ tasks[t].generate = "raised"
        /\ tasks[t].attempts = <<[provider |-> "ollama", ok |-> FALSE],
                                 [provider |-> "gemini", ok |-> FALSE]>>

\* C8: when the last two generate_response calls were each served by Ollama as
\* the fallback after Gemini failed, the call that completes next tried Ollama
\* first, and if Ollama served it the reply does not report fallback_used.
C8_ThirdCallRoutedToSecondary ==
    [][\A t \in Tasks :
           (/\ tasks[t].pc = "await"
            /\ tasks'[t].generate # "cancelled"
            /\ \/ tasks'[t].pc = "done"
               \/ tasks'[t].generations > tasks[t].generations
            /\ Len(gen_history) = fallback_threshold_errors
            /\ \A i \in 1..Len(gen_history) : ServedByFallback(gen_history[i]))
           => LET summary == gen_history'[Len(gen_history')]
              IN  /\ summary.first = "ollama"
                  /\ summary.provider = "ollama" =>
                         ~summary.fallback_used /\ ~summary.primary_failed]_vars

\* After a call served by Ollama as the fallback, with the error count at the
\* threshold, a call was routed to Ollama first and served by it.
C8_Witness ==
    /\ Len(gen_history) = fallback_threshold_errors
    /\ consecutive_errors = fallback_threshold_errors
    /\ ServedByFallback(gen_history[1])
    /\ gen_history[2].first = "ollama"
    /\ gen_history[2].provider = "ollama"
    /\ ~gen_history[2].fallback_used

\* C9: a process_message on a known session during which every
\* generate_response call raised still returns a reply.
C9_OutageStillReplies ==
    \A t \in Tasks :
        (TurnDone(t) /\ OutageThroughout(t)) => tasks[t].result.status = "reply"

\* C10: while a process_message is suspended on a backend, no step of another
\* process_message for the same session id changes the session.
C10_TurnsSerialized ==
    [][\A t \in Tasks, u \in Tasks :
           (/\ t # u
            /\ tasks[t].op = "turn"
            /\ tasks[t].pc = "await"
            /\ tasks'[t] = tasks[t]
            /\ tasks'[u] # tasks[u]
            /\ tasks'[u].op = "turn"
            /\ tasks'[u].session_id = tasks[t].session_id
            /\ tasks[t].session_id \in DOMAIN active_sessions
            /\ tasks[t].session_id \in DOMAIN active_sessions')
           => active_sessions'[tasks[t].session_id] =
                  active_sessions[tasks[t].session_id]]_vars

\* C11: once every generate_response call has completed, the provider state is
\* one that calls made one after the other can leave: Ollama is the current
\* provider only with the error count at or above the threshold (a Gemini
\* success resets the count and, after Ollama was tried first, restores Gemini).
C11_ProviderStateSerial ==
    (\A t \in Tasks : tasks[t].pc # "await") =>
        (current_provider = "ollama" =>
             consecutive_errors >= fallback_threshold_errors)

\* C12: after a generate_response call was cancelled while it awaited a backend,
\* consecutive_errors and current_provider are what they were when the call
\* started.
C12_CancelLeavesProviderState ==
    \A t \in Tasks :
        (tasks[t].pc = "done" /\ tasks[t].generate = "cancelled")
        => /\ consecutive_errors = tasks[t].entered.consecutive_errors
           /\ current_provider = tasks[t].entered.current_provider

\* C13: process_message, get_chat_history and end_conversation called with a
\* session id that is not in active_sessions raise ValueError("Invalid session
\* ID") and leave active_sessions as it was.
C13_UnknownSessionRejected ==
    [][\A t \in Tasks :
           (/\ tasks'[t] # tasks[t]
            /\ ncalls' = ncalls + 1
            /\ tasks'[t].op \in {"turn", "history", "end"}
            /\ tasks'[t].session_id \notin DOMAIN active_sessions)
           => /\ tasks'[t].pc = "done"
              /\ tasks'[t].result = Raised("ValueError")
              /\ active_sessions' = active_sessions]_vars

\* An end_conversation for an unknown id was rejected while the store held a
\* session.
C13_Witness ==
    \E t \in Tasks :
        /\ tasks[t].op = "end"
        /\ tasks[t].session_id \notin issued
        /\ tasks[t].result = Raised("ValueError")
        /\ DOMAIN active_sessions # {}

\* C14: a successful end_conversation removes the session from active_sessions,
\* and from then on the id stays absent: an id once issued and no longer in the
\* store never returns to it, so every later process_message, get_chat_history
\* or end_conversation on it raises ValueError.
C14_EndedStaysEnded ==
    [][/\ \A t \in Tasks :
              (/\ tasks'[t] # tasks[t]
               /\ tasks'[t].op = "end"
               /\ tasks'[t].result = [status |-> "ended"])
              => tasks'[t].session_id \notin DOMAIN active_sessions'
       /\ \A session_id \in issued \ DOMAIN active_sessions :
              /\ session_id \notin DOMAIN active_sessions'
              /\ \A t \in Tasks :
                     (/\ tasks'[t] # tasks[t]
                      /\ ncalls' = ncalls + 1
                      /\ tasks'[t].op \in {"turn", "history", "end"}
                      /\ tasks'[t].session_id = session_id)
                     => tasks'[t].result = Raised("ValueError")]_vars

\* A second end_conversation on an ended session has failed.
C14_Witness ==
    \E t \in Tasks :
        /\ tasks[t].op = "end"
        /\ tasks[t].session_id \in issued
        /\ tasks[t].result = Raised("ValueError")

\* C15: when a process_message has returned a reply, on whichever path, the
\* last entry of the session's history is the assistant message it returned.
C15_ReplyIsLastInHistory ==
    \A t \in Tasks :
        (TurnDone(t) /\ tasks[t].result.status = "reply")
        => LET messages == active_sessions[tasks[t].session_id].messages
           IN  /\ messages # <<>>
               /\ messages[Len(messages)] =
                      ChatMessage("assistant", tasks[t].result.message)

\* C16: a process_message whose first generation returned text that json.loads
\* rejects has returned a reply carrying the fixed apology, with no suggested
\* meals; it has not raised.
C16_UnparseableTextGetsDefault ==
    \A t \in Tasks :
        (/\ TurnDone(t)
         /\ "error" \in DOMAIN tasks[t].llm_response
         /\ tasks[t].llm_response.error = "json_parse_error")
        => /\ tasks[t].result.status = "reply"
           /\ tasks[t].result.message =
                  "I apologize, but I'm having trouble processing your request. Could you please rephrase it?"
           /\ tasks[t].result.suggested_meals = <<>>

\* C17: once the clients have sent their last request, so that no turn will
\* occur on any session again, every session still in active_sessions is
\* eventually removed, although nobody calls end_conversation for it.
C17_IdleSessionsExpire ==
    \A session_id \in 1..MaxCalls :
        [](/\ session_id \in DOMAIN active_sessions
           /\ ncalls = MaxCalls
           /\ \A t \in Tasks : tasks[t].pc # "await"
           => <>(session_id \notin DOMAIN active_sessions))

\* The call of _calculate_preference_score has been made.
Scored == scoring.pc \in {"scored", "ranked"}

\* C18: when the preferences name allergies and the item's allergens include
\* one of them, the score the item is given is 0.
C18_AllergenScoresZero ==
    (/\ Scored
     /\ scoring.score.raised = None
     /\ Range(scoring.item.allergens) \cap Range(scoring.preferences.allergies) # {})
    => scoring.score.value = <<0, 1>>

\* C19: for every item and every preferences value, facets set or unset and
\* any price range with min <= max, the scoring returns a value between 0 and 1
\* and does not raise.
C19_ScoreInUnitInterval ==
    Scored =>
        /\ scoring.score.raised = None
        /\ ~FLess(scoring.score.value, <<0, 1>>)
        /\ ~FLess(<<1, 1>>, scoring.score.value)

C21_FilterIdempotent ==
    /\ scoring.pc = "filtered_again" =>
           /\ scoring.safe_again.raised = None
           /\ scoring.safe_again.value = scoring.safe_meals.value
    /\ (scoring.pc \in {"filtered", "filtered_again"}
        /\ scoring.preferences.allergies = <<>>) =>
           scoring.safe_meals = [raised |-> None, value |-> scoring.meals]

\* Both items were given with an allergy declared; one was kept, and filtering
\* again has been done.
C21_Witness ==
    /\ scoring.pc = "filtered_again"
    /\ scoring.preferences.allergies # <<>>
    /\ Len(scoring.meals) = 2
    /\ Len(scoring.safe_again.value) = 1

\* C22: with the allergy "peanuts" declared, an item that has the ingredient
\* "groundnut oil" (in whatever case) is not among the meals filter_allergens
\* returns, although "peanuts" is not a substring of that ingredient.
C22_VariationExcluded ==
    (/\ scoring.pc \in {"filtered", "filtered_again"}
     /\ "peanuts" \in Range(scoring.preferences.allergies))
    => \A i \in 1..Len(scoring.safe_meals.value) :
           \A j \in 1..Len(scoring.safe_meals.value[i].ingredients) :
               lower(scoring.safe_meals.value[i].ingredients[j]) # "groundnut oil"

\* The satay, whose ingredients include groundnut oil, was given to the filter
\* with the allergy "peanuts".
C22_Witness ==
    /\ scoring.pc = "filtered"
    /\ "peanuts" \in Range(scoring.preferences.allergies)
    /\ Satay \in Range(scoring.meals)
    /\ ~StrIn("peanuts", "groundnut oil")
    /\ Satay \notin Range(scoring.safe_meals.value)

GenerateCompletes(t) ==
    /\ tasks[t].pc = "await"
    /\ tasks'[t].generate # "cancelled"
    /\ \/ tasks'[t].pc = "done"
       \/ tasks'[t].generations > tasks[t].generations

\* C24: when a generate_response call returns the text of the provider that
\* was active in it (Gemini, or Ollama once the threshold made it so),
\* consecutive_errors is 0.
C24_SuccessResetsErrors ==
    [][\A t \in Tasks :
           (/\ GenerateCompletes(t)
            /\ gen_history'[Len(gen_history')].provider
                   = gen_history'[Len(gen_history')].first)
           => consecutive_errors' = 0]_vars

\* C25: in a generate_response call that tried Ollama first as the active
\* provider, a failure of Ollama is followed by one attempt on Gemini; when that
\* attempt succeeds the call returns Gemini's text with consecutive_errors 0 and
\* current_provider Gemini, and when it fails the call raises "Both LLM
\* providers failed" and current_provider is still Ollama.
C25_RecoveryProbe ==
    [][\A t \in Tasks :
           (/\ tasks[t].pc = "await"
            /\ tasks[t].branch = "ollama_first"
            /\ current_provider = "ollama"
            /\ tasks'[t] # tasks[t]
            /\ tasks'[t].generate # "cancelled")
           => LET attempts == IF GenerateCompletes(t)
                              THEN gen_history'[Len(gen_history')].attempts
                              ELSE tasks'[t].attempts
                  last == attempts[Len(attempts)]
              IN  IF tasks[t].awaiting = "ollama" THEN
                      ~last.ok =>
                          /\ tasks'[t].pc = "await"
                          /\ tasks'[t].awaiting = "gemini"
                          /\ tasks'[t].generate = "running"
                          /\ current_provider' = "ollama"
                  ELSE
                      /\ GenerateCompletes(t)
                      /\ Len(attempts) = 2
                      /\ attempts[1] = [provider |-> "ollama", ok |-> FALSE]
                      /\ last.provider = "gemini"
                      /\ IF last.ok
                         THEN /\ gen_history'[Len(gen_history')].provider = "gemini"
                              /\ consecutive_errors' = 0
                              /\ current_provider' = "gemini"
                         ELSE /\ gen_history'[Len(gen_history')].error
                                     = "Both LLM providers failed"
                              /\ current_provider' = "ollama"]_vars

\* Ollama failed as the active provider and the Gemini probe succeeded: the
\* call returned and the provider state is back at (Gemini, 0).
C25_Witness ==
    /\ Len(gen_history) > 0
    /\ gen_history[Len(gen_history)].attempts =
           <<[provider |-> "ollama", ok |-> FALSE], [provider |-> "gemini", ok |-> TRUE]>>
    /\ gen_history[Len(gen_history)].provider = "gemini"
    /\ consecutive_errors = 0
    /\ current_provider = "gemini"

C27_HealthCheckInterval ==
    [][/\ (/\ health.pc \in {"idle", "done"}
           /\ health'.pc # health.pc \/ health'.result # health.result
                                     \/ health'.probes # health.probes
           /\ health'.now = health.now)
          => IF health.now - health.last_health_check
                    < health_check_interval_minutes * 60
             THEN /\ health'.pc = "done"
                  /\ health'.probes = <<>>
                  /\ health'.result = HealthResult(health.gemini_healthy,
                                                   health.ollama_healthy)
                  /\ health'.gemini_healthy = health.gemini_healthy
                  /\ health'.ollama_healthy = health.ollama_healthy
                  /\ health'.last_health_check = health.last_health_check
             ELSE /\ health'.pc = "probe_gemini"
                  /\ health'.last_health_check = health.now
       /\ (health.pc = "probe_gemini" /\ health'.pc # health.pc)
          => /\ health'.pc = "probe_ollama"
             /\ health'.gemini_healthy = health'.probes[1].ok
             /\ health'.ollama_healthy = health.ollama_healthy
       /\ (health.pc = "probe_ollama" /\ health'.pc # health.pc)
          => /\ health'.pc = "done"
             /\ Len(health'.probes) = 2
             /\ health'.ollama_healthy = health'.probes[2].ok
             /\ health'.gemini_healthy = health.gemini_healthy
             /\ health'.result = HealthResult(health'.probes[1].ok,
                                              health'.probes[2].ok)]_vars

\* A health_check within the interval of one whose Gemini probe failed and whose
\* Ollama probe succeeded has returned the recorded values without probing.
C27_Witness ==
    /\ health.pc = "done"
    /\ health.probes = <<>>
    /\ health.now > health.last_health_check
    /\ health.now - health.last_health_check = health_check_interval_minutes * 60 - 1
    /\ health.result = HealthResult(FALSE, TRUE)

\* The candidates the ranking and the allergy filter give for preferences: the
\* catalog items in ranked order, without those the filter removes.
SafeRanked(preferences) ==
    LET ranked == RankItems(get_all_menu_items, preferences)
        items == [i \in 1..Len(ranked.value) |-> ranked.value[i].item]
    IN  IF ranked.raised # None THEN <<>>
        ELSE filter_allergens(items, preferences.allergies).value

\* C28: whenever no handler is suspended, the filtered_meals every session
\* holds are the ranked and allergy-filtered candidates for the preferences the
\* session holds.
C28_FilteredMealsCurrent ==
    (\A t \in Tasks : tasks[t].pc # "await") =>
        \A session_id \in DOMAIN active_sessions :
            MealsOf(GetFilteredMeals(active_sessions[session_id]))
                = SafeRanked(active_sessions[session_id].preferences)

\* The step starts a process_message in slot t on a session of the store.
TurnStarts(t) ==
    /\ tasks[t].pc # "await"
    /\ ncalls' = ncalls + 1
    /\ tasks'[t].op = "turn"
    /\ tasks'[t].session_id \in DOMAIN active_sessions

\* C29: one intent is handled per turn and "more info" comes first.  A turn
\* whose message has a "more info" phrase, with or without a "more options"
\* phrase, asks the backend for the details, keeps shown_index from its start to
\* its end and never answers as "more options"; a turn whose message has only a
\* "more options" phrase moves shown_index by one and asks no backend.
C29_MoreInfoFirst ==
    [][\A t \in Tasks :
           /\ (TurnStarts(t) /\ IsMoreInfo(tasks'[t].message)) =>
                  /\ tasks'[t].pc = "await"
                  /\ tasks'[t].stage = "more_info"
                  /\ Cursor(active_sessions'[tasks'[t].session_id])
                         = Cursor(active_sessions[tasks'[t].session_id])
           /\ (/\ TurnStarts(t)
               /\ ~IsMoreInfo(tasks'[t].message)
               /\ IsMoreOptions(tasks'[t].message)) =>
                  /\ tasks'[t].pc = "done"
                  /\ tasks'[t].result.status = "reply"
                  /\ tasks'[t].result.kind \in {"how_about", "exhausted"}
                  /\ gen_history' = gen_history
                  /\ Cursor(active_sessions'[tasks'[t].session_id])
                         = Cursor(active_sessions[tasks'[t].session_id]) + 1
           /\ (/\ tasks[t].pc = "await"
               /\ tasks[t].op = "turn"
               /\ tasks[t].stage = "more_info") =>
                  /\ active_sessions' = active_sessions
                  /\ tasks'[t].pc = "done" =>
                         \/ tasks'[t].result.status = "raised"
                         \/ tasks'[t].result.kind = "info"]_vars

\* A turn whose message has both a "more info" and a "more options" phrase has
\* been answered with the details.
C29_Witness ==
    \E t \in Tasks :
        /\ TurnDone(t)
        /\ IsMoreInfo(tasks[t].message)
        /\ IsMoreOptions(tasks[t].message)
        /\ tasks[t].result.status = "reply"
        /\ tasks[t].result.kind = "info"

\* C30: a turn without new preferences whose message has neither a "more info"
\* nor a "more options" phrase, on a session whose sufficient preferences leave
\* candidates and whose cursor is within them, ends at once with the candidate
\* at the cursor; it asks no backend and leaves shown_index, filtered_meals,
\* consecutive_errors and current_provider as they were.
C30_DefaultSurfacesCursor ==
    [][\A t \in Tasks :
           (/\ TurnStarts(t)
            /\ tasks'[t].preferences = NoneObj
            /\ ~IsMoreInfo(tasks'[t].message)
            /\ ~IsMoreOptions(tasks'[t].message)
            /\ preferences_are_sufficient(
                   active_sessions[tasks'[t].session_id].preferences)
            /\ Cursor(active_sessions[tasks'[t].session_id])
                   < Len(SafeRanked(active_sessions[tasks'[t].session_id].preferences)))
           => LET before == active_sessions[tasks'[t].session_id]
                  after == active_sessions'[tasks'[t].session_id]
                  candidates == SafeRanked(before.preferences)
              IN  /\ tasks'[t].pc = "done"
                  /\ tasks'[t].result
                         = ChatResponse("recommend",
                                        RecommendMessage(candidates[Cursor(before) + 1]),
                                        candidates)
                  /\ Cursor(after) = Cursor(before)
                  /\ GetFilteredMeals(after) = GetFilteredMeals(before)
                  /\ gen_history' = gen_history
                  /\ consecutive_errors' = consecutive_errors
                  /\ current_provider' = current_provider]_vars

\* The categories of the docstring of preferences_are_sufficient that the
\* preferences set.
FacetsSet(preferences) ==
    {facet \in {"dietary_restrictions", "favorite_cuisines", "allergies", "dislikes"} :
        preferences[facet] # <<>>}
    \cup (IF preferences.price_range # NoneTuple THEN {"price_range"} ELSE {})
    \cup (IF preferences.spice_preference # NoneInt THEN {"spice_preference"} ELSE {})

\* C31: preferences are judged sufficient exactly when they set three or more
\* of the six categories, and the filtered_meals stored for a session are
\* non-empty only when its preferences are sufficient.
C31_SufficientFromThreeFacets ==
    scoring.pc = "updated" =>
        /\ scoring.sufficient <=> Cardinality(FacetsSet(scoring.preferences)) >= 3
        /\ scoring.updated.session.preferences = scoring.preferences
        /\ Len(GetFilteredMeals(scoring.updated.session)) > 0
               => Cardinality(FacetsSet(scoring.preferences)) >= 3
        /\ Cardinality(FacetsSet(scoring.preferences)) < 3
               => /\ scoring.updated.raised = None
                  /\ "filtered_meals" \in DOMAIN scoring.updated.session
                  /\ scoring.updated.session.filtered_meals = <<>>

\* Preferences that set exactly three categories, the dislikes among them, were
\* judged sufficient.
C31_Witness ==
    /\ scoring.pc = "updated"
    /\ scoring.sufficient
    /\ Cardinality(FacetsSet(scoring.preferences)) = 3
    /\ scoring.preferences.dislikes # <<>>

\* The names of one entry of the synonym dictionary: its key and its synonyms
EntryNames(key) == {key} \cup Range(allergen_synonyms(key))

\* C32: the synonym dictionary is read in both directions.  When the declared
\* allergy and the ingredient are two names of one entry, whichever of them is
\* the key, the check of the ingredient finds the allergy.
C32_SynonymsBothWays ==
    (/\ checking.pc \in {"checked", "warned"}
     /\ \E key \in SynonymKeys :
            /\ lower(checking.allergies[1]) \in EntryNames(key)
            /\ lower(checking.ingredient) \in EntryNames(key))
    => checking.found_allergens # <<>>

\* C33: the price category is all or nothing.  For preferences that set the
\* price range and nothing else, the score of an item is 1 when its price lies
\* within the range, bounds included, and 0 when it lies outside.
C33_PriceBinary ==
    (/\ scoring.pc = "scored"
     /\ scoring.score.raised = None
     /\ FacetsSet(scoring.preferences) = {"price_range"})
    => LET min_price == scoring.preferences.price_range[1]
           max_price == scoring.preferences.price_range[2]
       IN  IF min_price <= scoring.item.price /\ scoring.item.price <= max_price
           THEN scoring.score.value[1] = scoring.score.value[2]
           ELSE scoring.score.value[1] = 0

\* C34: once current_provider is Ollama, if from then on every call of Gemini
\* would succeed, then with generate_response calls arriving current_provider
\* eventually is Gemini again, whatever Ollama does.
C34_ReturnsToPrimary ==
    []((current_provider = "ollama" /\ []backends.gemini)
           => <>(current_provider = "gemini"))

\* C35: consecutive_errors is never negative, and while current_provider is
\* Ollama it is at least fallback_threshold_errors.
C35_FallbackMeansThreshold ==
    /\ consecutive_errors >= 0
    /\ current_provider = "ollama" => consecutive_errors >= fallback_threshold_errors

\* A generate_response call has been served by Ollama as the current provider.
C35_Witness ==
    /\ tasks[1].op = "generate"
    /\ tasks[1].pc = "done"
    /\ tasks[1].result = [status |-> "generated", provider |-> "ollama",
                          fallback_used |-> FALSE]
    /\ current_provider = "ollama"

\* C36: a step of health_check, be it the return of the cached values, the
\* start of the probes or the answer or failure of a probe, leaves
\* consecutive_errors and current_provider as they were.
C36_HealthCheckFrame ==
    [][health' # health =>
           /\ consecutive_errors' = consecutive_errors
           /\ current_provider' = current_provider]_vars

\* A health_check whose two probes failed has returned while one failure of
\* Gemini was counted and Gemini was still the current provider.
C36_Witness ==
    /\ health.pc = "done"
    /\ health.probes = <<[provider |-> "gemini", ok |-> FALSE],
                         [provider |-> "ollama", ok |-> FALSE]>>
    /\ consecutive_errors = 1
    /\ current_provider = "gemini"

\* C37: a step of a handler that concerns one session leaves every other
\* session of the store in the store, with its preferences, filtered_meals,
\* shown_index and messages as they were.
C37_OtherSessionsUntouched ==
    [][\A t \in Tasks :
           tasks'[t] # tasks[t] =>
               \A other \in DOMAIN active_sessions \ {tasks'[t].session_id} :
                   /\ other \in DOMAIN active_sessions'
                   /\ active_sessions'[other] = active_sessions[other]]_vars

\* A turn that brought preferences to one session has ended while another
\* session holds other preferences.
C37_Witness ==
    \E t \in Tasks :
        /\ TurnDone(t)
        /\ tasks[t].preferences # NoneObj
        /\ \E other \in DOMAIN active_sessions \ {tasks[t].session_id} :
               /\ active_sessions[other].preferences # NoPrefs
               /\ active_sessions[other].preferences # tasks[t].preferences

\* C38: a session that end_conversation removed stays out of the store, also
\* when a process_message on it was suspended at the time and completes
\* afterwards: the store gains no key but the fresh one of a start_conversation,
\* the session of the latest end_conversation of a slot is absent, and a
\* process_message, get_chat_history or end_conversation on an absent session
\* raises ValueError and leaves the store as it was.
C38_EndedSessionNotReinserted ==
    /\ [](\A t \in Tasks :
              (tasks[t].op = "end" /\ tasks[t].result = [status |-> "ended"])
                  => tasks[t].session_id \notin DOMAIN active_sessions)
    /\ [][/\ \A session_id \in DOMAIN active_sessions' \ DOMAIN active_sessions :
                 /\ next_session' = next_session + 1
                 /\ session_id = next_session'
          /\ \A t \in Tasks :
                 (/\ tasks[t].pc # "await"
                  /\ tasks'[t] # tasks[t]
                  /\ ncalls' = ncalls + 1
                  /\ tasks'[t].op \in {"turn", "history", "end"}
                  /\ tasks'[t].session_id \notin DOMAIN active_sessions)
                 => /\ tasks'[t].pc = "done"
                    /\ tasks'[t].result = Raised("ValueError")
                    /\ active_sessions' = active_sessions]_vars

\* A process_message has replied after an end_conversation removed its session
\* while it was suspended: its assistant message went to the session dict it
\* still held, and the session is not in the store.
C38_Witness ==
    \E t \in Tasks, u \in Tasks :
        /\ tasks[t].op = "turn"
        /\ tasks[t].pc = "done"
        /\ tasks[t].result.status = "reply"
        /\ tasks[t].session # NoneObj
        /\ tasks[t].session.messages[Len(tasks[t].session.messages)].role = "assistant"
        /\ tasks[u].op = "end"
        /\ tasks[u].result = [status |-> "ended"]
        /\ tasks[u].session_id = tasks[t].session_id
        /\ tasks[t].session_id \notin DOMAIN active_sessions

\* C39: for one ingredient and one declared allergy the check gives at most one
\* entry, with the match type of the first pass that matches, the passes being
\* direct, synonym, variation in this order; get_allergen_warnings passes the
\* entries of each ingredient on as they are.
C39_OneEntryPerAllergy ==
    checking.pc \in {"checked", "warned"} =>
        LET allergy == lower(checking.allergies[1])
            ingredient == lower(checking.ingredient)
            first_pass ==
                IF StrIn(allergy, ingredient) THEN "direct"
                ELSE IF AnyPhraseIn(allergen_synonyms(allergy), ingredient) THEN "synonym"
                ELSE IF AnyPhraseIn(_get_allergen_variations(allergy), ingredient)
                     THEN "variation"
                ELSE "none"
        IN  /\ Len(checking.found_allergens) <= 1
            /\ first_pass = "none" <=> checking.found_allergens = <<>>
            /\ first_pass # "none" =>
                   checking.found_allergens[1].match_type = first_pass
            /\ checking.pc = "warned" =>
                   Len(checking.warnings) = Len(checking.found_allergens)

====
